---- MODULE Spec2Model ----
(***************************************************************************)
(* A model of the video preloader (lib/video-preloader.ts, class           *)
(* VideoPreloader) and of the performance monitor                          *)
(* (lib/performance-monitor.ts, class PerformanceMonitor) of the OpenCut   *)
(* editor, and of the frame cache the preloader calls (lib/video-cache.ts, *)
(* whose source is not at hand: it is modelled from its specification).    *)
(*                                                                         *)
(* Time is counted in ticks of one sampling interval: the job creation     *)
(* loop steps by frameInterval = 1/24 s, so one second is TicksPerSecond   *)
(* ticks and all the arithmetic of the plan is exact.  Priorities are      *)
(* kept in units of 1/TicksPerSecond point for the same reason: the        *)
(* source's  100 - distance * 10  (distance in seconds) is                 *)
(* 100 * TicksPerSecond - distance * 10  with the distance in ticks.       *)
(*                                                                         *)
(* The two tuning fields are JavaScript numbers that configure() can set   *)
(* to NaN, so they are kept as records [nan, v]: Math.max, Math.min, the   *)
(* division and the comparisons below follow the IEEE rules for NaN.       *)
(***************************************************************************)
EXTENDS Integers, Sequences, FiniteSets, TLC

VARIABLES
    preloadQueue,           \* PreloadJob[]: the jobs not yet started
    isPreloading,           \* the re-entrancy flag of processPreloadQueue
    preloadRadius,          \* seconds, a JavaScript number
    maxConcurrentPreloads,  \* a JavaScript number
    currentPreloads,        \* the counter getStats reports as activePreloads
    idleCallbacks,          \* jobs handed to requestIdleCallback whose callback
                            \* has not finished (getFrameAt has not settled)
    planNo,                 \* history: number of schedulePreload calls so far
    lastCall,               \* history: the arguments of the last schedulePreload,
                            \* the radius it ran with and the queue it built
    discarded,              \* history: ids of the jobs dropped from the queue
    uncaught,               \* history: a job's failure escaped its callback
    lastOp,                 \* history: the last operation, the number of jobs
                            \* it touched, and whether it logged a warning
    \* the performance monitor
    metrics,                \* PerformanceMetrics: the snapshot
    frameRateHistory,       \* number[]: the window of one-second samples
    memoryInfo,             \* whether the runtime has performance.memory
    marks,                  \* performance.mark: the time of the latest mark
                            \* of each name, 0 when there is none
    performanceNow,         \* the time the latest mark was made at
    measures,               \* the measure entries the performance observer
                            \* has not been called with yet
    performanceObserver,    \* whether the observer is connected
    memoryCheckInterval,    \* whether the 2 s interval is set
    monitorResult,          \* history: the last operation of the monitor and
                            \* what it returned
    \* the frame cache
    cachedFrames,           \* the resident CachedFrames
    decoderPools,           \* the sources that have a DecoderPool
    inFlight,               \* the decodes that have not settled, with the
                            \* requests that await each
    clock,                  \* the time the access times are read from
    cacheResult,            \* history: the last event of the cache and what
                            \* it returned
    \* the content-fill service and its store
    fillJobs,               \* ContentFillJob[]: the jobs of the store; a job's
                            \* id is its place
    activeJobId,            \* the store's activeJobId, 0 for null
    fillRuns,               \* the processContentFill calls: the job of each
                            \* and the await it is suspended at
    resultMedia,            \* the runs whose result was added to the media
                            \* panel
    timelineResults,        \* the calls of timelineStore.addContentFillResult
    cancelledJobs           \* history: the jobs cancelJob has set to failed

preloaderVars ==
    << preloadQueue, isPreloading, preloadRadius, maxConcurrentPreloads,
       currentPreloads, idleCallbacks, planNo, lastCall,
       discarded, uncaught, lastOp >>

\* the runtime the monitor runs in and the handles it holds into it
runtimeVars ==
    << memoryInfo, marks, performanceNow, measures, performanceObserver,
       memoryCheckInterval >>

monitorVars == << metrics, frameRateHistory, runtimeVars, monitorResult >>

cacheVars ==
    << cachedFrames, decoderPools, inFlight, clock, cacheResult >>

fillVars ==
    << fillJobs, activeJobId, fillRuns, resultMedia, timelineResults,
       cancelledJobs >>

vars == << preloaderVars, monitorVars, cacheVars, fillVars >>

----------------------------------------------------------------------------
(* Program constants and the bounds of the model *)

TicksPerSecond == 24
DefaultPreloadRadius == 3
DefaultMaxConcurrentPreloads == 2

MaxPlans == 2       \* schedulePreload calls in one behaviour of Spec
MaxPlanCalls == 1   \* schedulePreload calls in one behaviour of PlanSpec

Sec(n) == n * TicksPerSecond

----------------------------------------------------------------------------
(* JavaScript numbers *)

NaN == [nan |-> TRUE, v |-> 0]
Num(n) == [nan |-> FALSE, v |-> n]

MathMax(a, b) ==
    IF a.nan \/ b.nan THEN NaN ELSE IF a.v >= b.v THEN a ELSE b

MathMin(a, b) ==
    IF a.nan \/ b.nan THEN NaN ELSE IF a.v <= b.v THEN a ELSE b

\* a < b: false as soon as one side is NaN
Lt(a, b) == ~a.nan /\ ~b.nan /\ a.v < b.v

Plus(a, b) == IF a.nan \/ b.nan THEN NaN ELSE Num(a.v + b.v)
Minus(a, b) == IF a.nan \/ b.nan THEN NaN ELSE Num(a.v - b.v)

Abs(x) == IF x < 0 THEN -x ELSE x
Max(x, y) == IF x >= y THEN x ELSE y

\* Playback speeds are the rationals num/den.
Half == [num |-> 1, den |-> 2]
SpeedMax(s, t) == IF s.num * t.den >= t.num * s.den THEN s ELSE t

----------------------------------------------------------------------------
(* The timeline and the media registry handed to schedulePreload *)

Element(type, hidden, mediaId, startTime, duration, trimStart, trimEnd) ==
    [type |-> type, hidden |-> hidden, mediaId |-> mediaId,
     startTime |-> startTime, duration |-> duration,
     trimStart |-> trimStart, trimEnd |-> trimEnd]

Track(type, muted, elements) ==
    [type |-> type, muted |-> muted, elements |-> elements]

Media(id, type, file) == [id |-> id, type |-> type, file |-> file]

MediaFiles ==
    << Media("v1", "video", TRUE), Media("v2", "video", TRUE),
       Media("a1", "audio", TRUE), Media("nofile", "video", FALSE) >>

\* one clip of three samples starting at 10 s
ShortTimeline ==
    << Track("media", FALSE,
         << Element("media", FALSE, "v1", Sec(10), 5, 1, 1) >>) >>

\* clips behind, around and far ahead of 10 s, and every kind of element the
\* search skips
MixedTimeline ==
    << Track("media", FALSE,
         << Element("media", FALSE, "v1", Sec(10) - 30, 10, 2, 0),
            Element("media", FALSE, "v2", Sec(10) - 1, 3, 0, 1),
            Element("media", TRUE, "v1", Sec(10), 4, 0, 0),
            Element("text", FALSE, "v1", Sec(10), 4, 0, 0),
            Element("media", FALSE, "a1", Sec(10), 4, 0, 0),
            Element("media", FALSE, "nofile", Sec(10), 4, 0, 0),
            Element("media", FALSE, "gone", Sec(10), 4, 0, 0),
            Element("media", FALSE, "v2", Sec(20) + 12, 4, 1, 1) >>),
       Track("media", TRUE,
         << Element("media", FALSE, "v1", Sec(10), 4, 0, 0) >>),
       Track("audio", FALSE,
         << Element("media", FALSE, "v1", Sec(10), 4, 0, 0) >>) >>

\* one clip covering 7 s .. 13 s
LongTimeline ==
    << Track("media", FALSE,
         << Element("media", FALSE, "v1", Sec(7), Sec(8), Sec(1), Sec(1)) >>) >>

Call(currentTime, tracks, num, den) ==
    [ currentTime |-> currentTime, tracks |-> tracks,
      playbackSpeed |-> [num |-> num, den |-> den] ]

\* the schedulePreload calls of Spec, which interleaves them with the jobs
Calls ==
    { Call(Sec(10), ShortTimeline, 1, 1), Call(Sec(10), MixedTimeline, 1, 1) }

\* the schedulePreload calls of PlanSpec, which looks at the plans alone
PlanCalls ==
    { Call(Sec(10), tl, 1, 1) : tl \in { ShortTimeline, MixedTimeline, LongTimeline } }
    \cup { Call(Sec(10), tl, 2, 1) : tl \in { ShortTimeline, LongTimeline } }
    \cup { Call(Sec(10), MixedTimeline, 1, 4),
           Call(Sec(10) + 1, MixedTimeline, 1, 2), Call(0, LongTimeline, 1, 4) }

\* what a caller may pass to configure: a field left out (undefined), NaN,
\* values in and out of range
Undefined == [nan |-> FALSE, v |-> 0, undefined |-> TRUE]
Options(radius, concurrency) ==
    [ preloadRadius |-> radius, maxConcurrentPreloads |-> concurrency ]

\* the configure calls of Spec
ConfigureCalls ==
    { Options(Undefined, c) : c \in { NaN, Num(0), Num(9) } }
    \cup { Options(r, Undefined) : r \in { NaN, Num(0) } }

\* the configure calls of PlanSpec
RadiusInputs == { Undefined, NaN, Num(0), Num(5), Num(999) }
ConcurrencyInputs == { Undefined, Num(0) }
PlanConfigureCalls ==
    { Options(r, c) : r \in RadiusInputs, c \in ConcurrencyInputs }

----------------------------------------------------------------------------
(* schedulePreload: the plan *)

\* mediaFiles.find((m) => m.id === id); undefined when there is none
NoMedia == [id |-> "", type |-> "undefined", file |-> FALSE]
FindMedia(mediaFiles, id) ==
    LET hits == { i \in DOMAIN mediaFiles : mediaFiles[i].id = id }
    IN  IF hits = {} THEN NoMedia
        ELSE mediaFiles[CHOOSE i \in hits : \A k \in hits : i <= k]

\* a radius that ignores the playback speed
AdjustedRadiusIgnoresSpeed(radius, playbackSpeed) ==
    IF radius.nan THEN NaN ELSE Num(Sec(radius.v))

\* this.preloadRadius / Math.max(0.5, playbackSpeed), in ticks
AdjustedRadius(radius, playbackSpeed) ==
    LET s == SpeedMax(Half, playbackSpeed)
    IN  IF radius.nan THEN NaN ELSE Num((Sec(radius.v) * s.den) \div s.num)

ElementEnd(element) ==
    element.startTime + element.duration - element.trimStart - element.trimEnd

SearchStart(currentTime) == currentTime - Sec(1)
SearchEnd(currentTime, lookAheadTime) == Plus(Num(currentTime), lookAheadTime)

\* a test that forgets the hidden flag of the element
IsRelevantShowsHidden(track, element, currentTime, mediaFiles, lookAheadTime) ==
    /\ ~(track.muted \/ track.type # "media")
    /\ element.type = "media"
    /\ Lt(Num(element.startTime), Plus(Num(currentTime), lookAheadTime))
    /\ element.startTime + element.duration - element.trimStart - element.trimEnd
          > currentTime - Sec(1)

\* the test findRelevantVideoElements applies to one element of one track
IsRelevant(track, element, currentTime, mediaFiles, lookAheadTime) ==
    /\ ~(track.muted \/ track.type # "media")
    /\ ~(element.type # "media" \/ element.hidden)
    /\ Lt(Num(element.startTime), SearchEnd(currentTime, lookAheadTime))
    /\ ElementEnd(element) > SearchStart(currentTime)
    /\ FindMedia(mediaFiles, element.mediaId).type = "video"

\* the relevant elements in the order the two loops visit them, each as the
\* pair <<track index, element index>>
RECURSIVE RelevantOfTrack(_, _, _, _, _, _)
RelevantOfTrack(tracks, ti, ei, currentTime, mediaFiles, lookAheadTime) ==
    IF ei > Len(tracks[ti].elements) THEN << >>
    ELSE (IF IsRelevant(tracks[ti], tracks[ti].elements[ei], currentTime,
                        mediaFiles, lookAheadTime)
          THEN << <<ti, ei>> >> ELSE << >>)
         \o RelevantOfTrack(tracks, ti, ei + 1, currentTime, mediaFiles, lookAheadTime)

RECURSIVE FindRelevantVideoElements(_, _, _, _, _)
FindRelevantVideoElements(tracks, ti, currentTime, mediaFiles, lookAheadTime) ==
    IF ti > Len(tracks) THEN << >>
    ELSE RelevantOfTrack(tracks, ti, 1, currentTime, mediaFiles, lookAheadTime)
         \o FindRelevantVideoElements(tracks, ti + 1, currentTime, mediaFiles,
                                      lookAheadTime)

\* a window that starts with the element, however far back
PreloadStartAtElement(element, currentTime, adjustedRadius) ==
    Num(element.startTime)

PreloadStart(element, currentTime, adjustedRadius) ==
    MathMax(Num(element.startTime), Minus(Num(currentTime), adjustedRadius))

PreloadEnd(element, currentTime, adjustedRadius) ==
    MathMin(Num(ElementEnd(element)), Plus(Num(currentTime), adjustedRadius))

\* a local time that leaves the trim out
LocalTimeUntrimmed(time, element) == time - element.startTime

LocalTime(time, element) == time - element.startTime + element.trimStart

\* a priority without the lower bound 0
PriorityUnclamped(time, currentTime) ==
    100 * TicksPerSecond - Abs(time - currentTime) * 10

\* a priority that falls off by whole seconds
PriorityPerSecond(time, currentTime) ==
    Max(0, 100 * TicksPerSecond
           - (Abs(time - currentTime) \div TicksPerSecond) * TicksPerSecond * 10)

\* Math.max(0, 100 - distanceFromCurrent * 10), in 1/TicksPerSecond points
Priority(time, currentTime) ==
    Max(0, 100 * TicksPerSecond - Abs(time - currentTime) * 10)

\* the jobs the inner loop pushes for one element; src and time are history
\* fields (the element and the global sample time the job was made for)
JobsOfElement(src, element, mediaItem, currentTime, adjustedRadius) ==
    LET start == PreloadStart(element, currentTime, adjustedRadius)
        end   == PreloadEnd(element, currentTime, adjustedRadius)
    IN  IF ~Lt(start, end) THEN << >>
        ELSE [ k \in 1 .. (end.v - start.v) |->
                 [ mediaId    |-> mediaItem.id,
                   file       |-> mediaItem.file,
                   targetTime |-> LocalTime(start.v + k - 1, element),
                   priority   |-> Priority(start.v + k - 1, currentTime),
                   src        |-> src,
                   time       |-> start.v + k - 1 ] ]

RECURSIVE CreateJobs(_, _, _, _, _, _)
CreateJobs(videoElements, i, tracks, mediaFiles, currentTime, adjustedRadius) ==
    IF i > Len(videoElements) THEN << >>
    ELSE LET src       == videoElements[i]
             element   == tracks[src[1]].elements[src[2]]
             mediaItem == FindMedia(mediaFiles, element.mediaId)
         IN  (IF mediaItem = NoMedia \/ mediaItem.type # "video" \/ ~mediaItem.file
              THEN << >>
              ELSE JobsOfElement(src, element, mediaItem, currentTime, adjustedRadius))
             \o CreateJobs(videoElements, i + 1, tracks, mediaFiles, currentTime,
                           adjustedRadius)

\* this.preloadQueue.sort((a, b) => b.priority - a.priority): stable, highest
\* priority first
RECURSIVE SortByPriority(_)
SortByPriority(q) ==
    IF q = << >> THEN << >>
    ELSE LET top == CHOOSE p \in { q[i].priority : i \in DOMAIN q } :
                        \A i \in DOMAIN q : q[i].priority <= p
         IN  SelectSeq(q, LAMBDA j : j.priority = top)
             \o SortByPriority(SelectSeq(q, LAMBDA j : j.priority # top))

\* a queue left in the order the jobs were created in
PlanUnsorted(currentTime, tracks, mediaFiles, playbackSpeed, radius) ==
    LET adjustedRadius == AdjustedRadius(radius, playbackSpeed)
        videoElements  == FindRelevantVideoElements(tracks, 1, currentTime,
                                                    mediaFiles, adjustedRadius)
    IN  CreateJobs(videoElements, 1, tracks, mediaFiles, currentTime,
                   adjustedRadius)

\* the queue schedulePreload builds, before processPreloadQueue runs
Plan(currentTime, tracks, mediaFiles, playbackSpeed, radius) ==
    LET adjustedRadius == AdjustedRadius(radius, playbackSpeed)
        videoElements  == FindRelevantVideoElements(tracks, 1, currentTime,
                                                    mediaFiles, adjustedRadius)
    IN  SortByPriority(CreateJobs(videoElements, 1, tracks, mediaFiles,
                                  currentTime, adjustedRadius))

----------------------------------------------------------------------------
(* processPreloadQueue *)

JobId(job) == << job.plan, job.idx >>
JobIds(q) == { JobId(q[i]) : i \in DOMAIN q }

\* plan and idx are history fields: the schedulePreload call that made the job
\* and its place in that call's sorted queue
Tagged(q, plan) ==
    [ i \in DOMAIN q |->
        [ mediaId |-> q[i].mediaId, file |-> q[i].file,
          targetTime |-> q[i].targetTime, priority |-> q[i].priority,
          src |-> q[i].src, time |-> q[i].time, plan |-> plan, idx |-> i ] ]

\* the loop condition: jobs are left and a slot is free
MayStart(queue, active, max) == Len(queue) > 0 /\ Lt(Num(active), max)

\* the while loop: shift jobs off the queue while a slot is free; callbacks
\* are the jobs handed to requestIdleCallback, in order
RECURSIVE StartJobs(_, _, _, _)
StartJobs(queue, active, max, callbacks) ==
    IF MayStart(queue, active, max)
    THEN StartJobs(Tail(queue), active + 1, max, Append(callbacks, Head(queue)))
    ELSE [ queue |-> queue, active |-> active, callbacks |-> callbacks ]

\* the guard on entry: a run is in progress, or there is nothing to do
Busy(queue, preloading) == preloading \/ Len(queue) = 0

\* the whole of processPreloadQueue, from the state (queue, preloading,
\* active) under the limit max
ProcessPreloadQueue(queue, preloading, active, max) ==
    IF Busy(queue, preloading)
    THEN [ queue |-> queue, preloading |-> preloading, active |-> active,
           callbacks |-> << >> ]
    ELSE LET r == StartJobs(queue, active, max, << >>)
         IN  [ queue |-> r.queue,
               preloading |-> IF r.active = 0 THEN FALSE ELSE TRUE,
               active |-> r.active,
               callbacks |-> r.callbacks ]

Range(q) == { q[i] : i \in DOMAIN q }

----------------------------------------------------------------------------
(* The operations *)

ClampRadius(x) == MathMax(Num(1), MathMin(Num(10), x))
ClampConcurrency(x) == MathMax(Num(1), MathMin(Num(4), x))

\* The plans are computed once for every call and every radius configure can
\* leave behind, and looked up by schedulePreload.
Radii ==
    { Num(DefaultPreloadRadius) }
    \cup { ClampRadius(o.preloadRadius) :
             o \in { x \in ConfigureCalls \cup PlanConfigureCalls :
                       x.preloadRadius # Undefined } }

Plans ==
    [ c \in Calls \cup PlanCalls, radius \in Radii, n \in 1 .. MaxPlans |->
        Tagged(Plan(c.currentTime, c.tracks, MediaFiles, c.playbackSpeed, radius), n) ]

\* the preloader after construction
NewPreloader ==
    /\ preloadQueue = << >>
    /\ isPreloading = FALSE
    /\ preloadRadius = Num(DefaultPreloadRadius)
    /\ maxConcurrentPreloads = Num(DefaultMaxConcurrentPreloads)
    /\ currentPreloads = 0
    /\ idleCallbacks = {}
    /\ planNo = 0
    /\ lastCall = [ currentTime |-> 0, tracks |-> << >>,
                    playbackSpeed |-> [num |-> 1, den |-> 1],
                    radius |-> Num(DefaultPreloadRadius), plan |-> << >> ]
    /\ discarded = {}
    /\ uncaught = FALSE
    /\ lastOp = [ op |-> "new", n |-> 0, warned |-> FALSE ]

\* a monitor that starts at the target frame rate
NewMetricsAtTargetRate ==
    [ frameRate |-> 24, memoryUsage |-> 0, cacheHitRate |-> 0,
      videoDecodingTime |-> 0, renderTime |-> 0, lastUpdate |-> 0 ]

\* the field initialisers of the monitor
NewMetrics ==
    [ frameRate |-> 0, memoryUsage |-> 0, cacheHitRate |-> 0,
      videoDecodingTime |-> 0, renderTime |-> 0, lastUpdate |-> 0 ]

\* the runtime after the monitor's construction: no mark made, the observer
\* observing and the memory interval set
MeasureNames == { "video-decode", "frame-render", "timeline-scroll" }

MarkNames ==
    { << name, "start" >> : name \in MeasureNames }
    \cup { << name, "end" >> : name \in MeasureNames }

NewRuntime ==
    /\ marks = [ mark \in MarkNames |-> 0 ]
    /\ performanceNow = 0
    /\ measures = << >>
    /\ performanceObserver = TRUE
    /\ memoryCheckInterval = TRUE

\* the frame cache after construction: empty and cold
NewCache ==
    /\ cachedFrames = {}
    /\ decoderPools = {}
    /\ inFlight = {}
    /\ clock = 1
    /\ cacheResult = [ op |-> "new" ]

\* the content-fill store and service before any call: no job, nothing added
NewContentFill ==
    /\ fillJobs = << >>
    /\ activeJobId = 0
    /\ fillRuns = << >>
    /\ resultMedia = {}
    /\ timelineResults = {}
    /\ cancelledJobs = {}

\* Spec and PlanSpec look at the preloader alone, beside a cache that is not
\* called and a monitor that was constructed in a runtime without
\* performance.memory and is not sampled
Init ==
    /\ NewPreloader
    /\ NewCache
    /\ metrics = NewMetrics
    /\ frameRateHistory = << >>
    /\ memoryInfo = FALSE
    /\ NewRuntime
    /\ NewContentFill
    /\ monitorResult = [ op |-> "new" ]

\* a schedulePreload that forgets to clear the queue
ClearedQueueKeepsOld(queue) == queue

\* the queue schedulePreload starts from: the old jobs are cleared
ClearedQueue(queue) == << >>

SchedulePreload(currentTime, tracks, playbackSpeed) ==
    /\ planNo < MaxPlans
    /\ LET old  == ClearedQueue(preloadQueue)
           plan == old \o Plans[[ currentTime |-> currentTime, tracks |-> tracks,
                                   playbackSpeed |-> playbackSpeed ],
                                 preloadRadius, planNo + 1]
           r    == ProcessPreloadQueue(plan, isPreloading, currentPreloads,
                                       maxConcurrentPreloads)
       IN  /\ preloadQueue' = r.queue
           /\ isPreloading' = r.preloading
           /\ currentPreloads' = r.active
           /\ idleCallbacks' = idleCallbacks \cup Range(r.callbacks)
           /\ discarded' = discarded \cup (JobIds(preloadQueue) \ JobIds(old))
           /\ lastCall' = [ currentTime |-> currentTime, tracks |-> tracks,
                            playbackSpeed |-> playbackSpeed,
                            radius |-> preloadRadius, plan |-> plan ]
           /\ lastOp' = [ op |-> "schedulePreload", n |-> Len(r.callbacks),
                          warned |-> FALSE ]
    /\ planNo' = planNo + 1
    /\ UNCHANGED << preloadRadius, maxConcurrentPreloads, uncaught >>
    /\ UNCHANGED << monitorVars, cacheVars, fillVars >>

\* a clearQueue that also gives up the jobs in flight
ClearQueueAbortsJobs ==
    /\ preloadQueue' = << >>
    /\ discarded' = discarded \cup JobIds(preloadQueue)
    /\ idleCallbacks' = {}
    /\ currentPreloads' = 0
    /\ lastOp' = [ op |-> "clearQueue", n |-> Len(preloadQueue), warned |-> FALSE ]
    /\ UNCHANGED << isPreloading, preloadRadius, maxConcurrentPreloads,
                    planNo, lastCall, uncaught >>
    /\ UNCHANGED << monitorVars, cacheVars, fillVars >>

ClearQueue ==
    /\ preloadQueue' = << >>
    /\ discarded' = discarded \cup JobIds(preloadQueue)
    /\ lastOp' = [ op |-> "clearQueue", n |-> Len(preloadQueue), warned |-> FALSE ]
    /\ UNCHANGED << isPreloading, preloadRadius, maxConcurrentPreloads,
                    currentPreloads, idleCallbacks, planNo, lastCall,
                    uncaught >>
    /\ UNCHANGED << monitorVars, cacheVars, fillVars >>

Configure(radius, concurrency) ==
    /\ preloadRadius' =
          IF radius # Undefined THEN ClampRadius(radius) ELSE preloadRadius
    /\ maxConcurrentPreloads' =
          IF concurrency # Undefined THEN ClampConcurrency(concurrency)
          ELSE maxConcurrentPreloads
    /\ lastOp' = [ op |-> "configure", n |-> 0, warned |-> FALSE ]
    /\ UNCHANGED << preloadQueue, isPreloading, currentPreloads, idleCallbacks,
                    planNo, lastCall, discarded, uncaught >>
    /\ UNCHANGED << monitorVars, cacheVars, fillVars >>

\* a callback without the catch block: the failure is thrown on
CaughtRethrows(failed) == [ warned |-> FALSE, thrown |-> failed ]

\* try / catch: what is left of a failed getFrameAt after the catch block
\* (a warning is logged and nothing is thrown on)
Caught(failed) == [ warned |-> failed, thrown |-> FALSE ]

\* a finally block that does not give the slot back
FinallyKeepsSlot(queue, preloading, active, max) ==
    IF Len(queue) > 0
    THEN ProcessPreloadQueue(queue, preloading, active, max)
    ELSE [ queue |-> queue,
           preloading |-> IF active = 0 THEN FALSE ELSE preloading,
           active |-> active,
           callbacks |-> << >> ]

\* the finally block, from the state (queue, preloading, active)
Finally(queue, preloading, active, max) ==
    IF Len(queue) > 0
    THEN ProcessPreloadQueue(queue, preloading, active - 1, max)
    ELSE [ queue |-> queue,
           preloading |-> IF active - 1 = 0 THEN FALSE ELSE preloading,
           active |-> active - 1,
           callbacks |-> << >> ]

\* the browser runs the idle callback of a job: it awaits
\* videoCache.getFrameAt, which resolves or rejects (failed); nothing of the
\* preloader changes before the call settles
RunIdleCallback(job, failed) ==
    /\ job \in idleCallbacks
    /\ LET c == Caught(failed)
           r == Finally(preloadQueue, isPreloading, currentPreloads,
                        maxConcurrentPreloads)
       IN  /\ uncaught' = (uncaught \/ c.thrown)
           /\ preloadQueue' = r.queue
           /\ isPreloading' = r.preloading
           /\ currentPreloads' = r.active
           /\ idleCallbacks' = (idleCallbacks \ {job}) \cup Range(r.callbacks)
           /\ lastOp' = [ op |-> IF failed THEN "rejected" ELSE "resolved",
                          n |-> Len(r.callbacks), warned |-> c.warned ]
    /\ UNCHANGED << preloadRadius, maxConcurrentPreloads, planNo, lastCall,
                    discarded >>
    /\ UNCHANGED << monitorVars, cacheVars, fillVars >>

Next ==
    \/ \E c \in Calls : SchedulePreload(c.currentTime, c.tracks, c.playbackSpeed)
    \/ ClearQueue
    \/ \E o \in ConfigureCalls :
          Configure(o.preloadRadius, o.maxConcurrentPreloads)
    \/ \E job \in idleCallbacks, failed \in BOOLEAN : RunIdleCallback(job, failed)

Spec == Init /\ [][Next]_vars

\* the plans alone: only configure and schedulePreload are called, over a
\* wider choice of timelines, playback times and speeds
PlanNext ==
    \/ \E c \in PlanCalls :
          /\ planNo < MaxPlanCalls
          /\ SchedulePreload(c.currentTime, c.tracks, c.playbackSpeed)
    \/ \E o \in PlanConfigureCalls :
          Configure(o.preloadRadius, o.maxConcurrentPreloads)

PlanSpec == Init /\ [][PlanNext]_vars

----------------------------------------------------------------------------
(* The claims about the queue and the jobs in flight (Spec) *)

\* jobs taken from the queue whose decode call has not settled
ActivePreloads == Cardinality(idleCallbacks)

\* the jobs a step hands to requestIdleCallback
Started == idleCallbacks' \ idleCallbacks

InRange(x, lo, hi) == ~x.nan /\ lo <= x.v /\ x.v <= hi

\* C1, as claimed: the number of preload jobs in flight never exceeds the
\* configured maxConcurrentPreloads.  Refuted: configure lowers the limit
\* under the jobs that are already in flight.
C1_ActiveWithinLimit == ~Lt(maxConcurrentPreloads, Num(ActivePreloads))

\* C2, as claimed: the queue drains.  Jobs leave the queue only inside
\* schedulePreload and inside the callback of a job in flight, so when no job
\* is in flight (and the limit is a number) a queue that is to drain must be
\* empty.  Refuted: the jobs beyond the first maxConcurrentPreloads stay.
C2_QueueDrains ==
    (idleCallbacks = {} /\ ~maxConcurrentPreloads.nan) => preloadQueue = << >>

\* C3: schedulePreload discards the previous plan.  The queue only ever
\* holds jobs of the latest schedulePreload call, every job a step starts is
\* of the latest call and was never dropped, and a schedulePreload step keeps
\* every job in flight.
C3_PreviousPlanDiscarded ==
    [][ /\ \A i \in DOMAIN preloadQueue' : preloadQueue'[i].plan = planNo'
        /\ \A j \in Started : j.plan = planNo' /\ JobId(j) \notin discarded'
        /\ planNo' # planNo =>
              /\ idleCallbacks \subseteq idleCallbacks'
              /\ JobIds(preloadQueue) \subseteq discarded' ]_vars

\* C3's case: a second schedulePreload dropped waiting jobs of the first
\* while a job of the first was in flight.
C3_Witness ==
    /\ lastOp.op = "schedulePreload"
    /\ planNo = 2
    /\ \E id \in discarded : id[1] = 1
    /\ \E j \in idleCallbacks : j.plan = 1
    /\ preloadQueue # << >>

\* C4, as claimed: after any configure calls preloadRadius is in [1,10] and
\* maxConcurrentPreloads in [1,4].  Refuted: NaN passes through the clamp.
C4_ConfigureClamps ==
    InRange(preloadRadius, 1, 10) /\ InRange(maxConcurrentPreloads, 1, 4)

\* C5: clearQueue empties the queue and changes nothing else (the counter,
\* the two settings, the flag and the jobs in flight), and no job it dropped
\* is started by a later step.
C5_ClearQueueOnlyDrops ==
    [][ /\ lastOp'.op = "clearQueue" =>
              /\ preloadQueue' = << >>
              /\ JobIds(preloadQueue) \subseteq discarded'
              /\ UNCHANGED << currentPreloads, preloadRadius,
                              maxConcurrentPreloads, isPreloading, idleCallbacks >>
        /\ \A j \in Started : JobId(j) \notin discarded ]_vars

\* C5's case: clearQueue dropped waiting jobs while jobs were in flight.
C5_Witness ==
    /\ lastOp.op = "clearQueue"
    /\ lastOp.n > 0
    /\ idleCallbacks # {}
    /\ currentPreloads > 0

----------------------------------------------------------------------------
(* The claims about the plan (PlanSpec), stated of the queue the last        *)
(* schedulePreload call built, in the state that call leaves                 *)

Scheduled == lastOp.op = "schedulePreload"
LastPlan == lastCall.plan

ElementOf(job) == lastCall.tracks[job.src[1]].elements[job.src[2]]

\* the global timeline time of a job's sample, from its local targetTime
SampleTime(job) ==
    job.targetTime - ElementOf(job).trimStart + ElementOf(job).startTime

Distance(job) == Abs(SampleTime(job) - lastCall.currentTime)

\* the distances and the priorities of the jobs of the last plan, in order
Distances == [ i \in DOMAIN LastPlan |-> Distance(LastPlan[i]) ]
Priorities == [ i \in DOMAIN LastPlan |-> LastPlan[i].priority ]

\* radius / max(1/2, speed) in ticks, for the radius (a number) and the speed
\* of the last call
EffectiveRadius ==
    LET s == lastCall.playbackSpeed
    IN  IF 2 * s.num >= s.den
        THEN (lastCall.radius.v * TicksPerSecond * s.den) \div s.num
        ELSE lastCall.radius.v * TicksPerSecond * 2

\* C7: every job has priority max(0, 100 - 10 * |sampleTime - currentTime|),
\* which lies in [0,100], and of two jobs of a plan the one closer to
\* currentTime has a priority at least as high.
C7_PriorityFormula ==
    Scheduled =>
      LET d == Distances
          p == Priorities
      IN  \A i \in DOMAIN LastPlan :
            /\ LET linear == 100 * TicksPerSecond - 10 * d[i]
               IN  p[i] = IF linear > 0 THEN linear ELSE 0
            /\ p[i] >= 0
            /\ p[i] <= 100 * TicksPerSecond
            /\ \A k \in DOMAIN LastPlan : d[i] < d[k] => p[i] >= p[k]

\* C7's case: a plan with a sample at currentTime (priority 100), samples
\* at different distances and a sample so far away that the bound 0 applies.
C7_Witness ==
    /\ Scheduled
    /\ LET d == Distances
           p == Priorities
       IN  \E i, k \in DOMAIN LastPlan :
             /\ p[i] = 100 * TicksPerSecond
             /\ d[i] < d[k]
             /\ d[k] > 10 * TicksPerSecond
             /\ p[k] = 0

InActiveWindow(job) ==
    /\ ElementOf(job).startTime <= SampleTime(job)
    /\ SampleTime(job) < ElementEnd(ElementOf(job))

\* C9, as claimed: every sample lies in its element's active window and in
\* the search window [currentTime - 1 s, currentTime + effective radius].
\* Refuted: samples reach back to currentTime - effective radius.
C9_SamplesInSearchWindow ==
    Scheduled =>
      \A i \in DOMAIN LastPlan :
        /\ InActiveWindow(LastPlan[i])
        /\ SampleTime(LastPlan[i]) >= lastCall.currentTime - TicksPerSecond
        /\ SampleTime(LastPlan[i]) <= lastCall.currentTime + EffectiveRadius

\* C9, amended: every sample lies in its element's active window and in
\* [currentTime - effective radius, currentTime + effective radius), and its
\* element's active interval meets the search window: it starts before
\* currentTime + effective radius and ends after currentTime - 1 s.
C9_SamplesInPreloadWindow ==
    Scheduled =>
      \A i \in DOMAIN LastPlan :
        /\ InActiveWindow(LastPlan[i])
        /\ SampleTime(LastPlan[i]) >= lastCall.currentTime - EffectiveRadius
        /\ SampleTime(LastPlan[i]) < lastCall.currentTime + EffectiveRadius
        /\ ElementOf(LastPlan[i]).startTime < lastCall.currentTime + EffectiveRadius
        /\ ElementEnd(ElementOf(LastPlan[i])) > lastCall.currentTime - TicksPerSecond

\* C9's case: a sample more than 1 s before currentTime is queued, next to
\* samples after currentTime.
C9_Witness ==
    /\ Scheduled
    /\ \E i, k \in DOMAIN LastPlan :
          /\ SampleTime(LastPlan[i]) < lastCall.currentTime - TicksPerSecond
          /\ SampleTime(LastPlan[k]) >= lastCall.currentTime

\* the scenario of C10: currentTime 10 s, playbackSpeed 2, base radius 3
Scenario ==
    /\ Scheduled
    /\ lastCall.currentTime = 10 * TicksPerSecond
    /\ lastCall.playbackSpeed = [num |-> 2, den |-> 1]
    /\ lastCall.radius = Num(3)

\* the plan for the same timeline, time and radius at playbackSpeed 1
PlanAtSpeedOne ==
    Plans[Call(lastCall.currentTime, lastCall.tracks, 1, 1), lastCall.radius, planNo]

----------------------------------------------------------------------------
(* The claim about the elements a plan is made for (PlanSpec) *)

\* the <<track index, element index>> of every element of the last call
ElementsOfCall ==
    UNION { { <<ti, ei>> : ei \in DOMAIN lastCall.tracks[ti].elements } :
            ti \in DOMAIN lastCall.tracks }

\* the elements the last plan holds a job for
QueuedElements == { LastPlan[i].src : i \in DOMAIN LastPlan }

\* the conditions of C11 for the element e of track t, stated on the inputs
Qualifies(t, e) ==
    /\ e.type = "media"
    /\ ~e.hidden
    /\ t.type = "media"
    /\ ~t.muted
    /\ ~lastCall.radius.nan
    /\ e.startTime <= lastCall.currentTime + EffectiveRadius
    /\ ElementEnd(e) >= lastCall.currentTime - TicksPerSecond
    /\ \E i \in DOMAIN MediaFiles :
          /\ MediaFiles[i].id = e.mediaId
          /\ MediaFiles[i].type = "video"
          /\ MediaFiles[i].file

\* C11: schedulePreload queues a job only for an element that is media-typed,
\* not hidden, on a media track that is not muted, whose active interval
\* intersects the search window [currentTime - 1 s, currentTime + effective
\* radius] and whose media file is video-typed with a byte source; an element
\* failing one of these conditions gets no job, and every job carries the
\* media id of its element.
C11_OnlyQualifyingElements ==
    Scheduled =>
      /\ \A src \in ElementsOfCall :
            LET t == lastCall.tracks[src[1]]
                e == t.elements[src[2]]
            IN  ~Qualifies(t, e) => src \notin QueuedElements
      /\ \A i \in DOMAIN LastPlan :
            /\ LastPlan[i].src \in ElementsOfCall
            /\ LastPlan[i].mediaId = ElementOf(LastPlan[i]).mediaId

\* C11's case: a plan for the mixed timeline that holds jobs, while a hidden
\* element, a text element, an element of an audio file, of a video without
\* byte source, of a missing media file, of a muted track and of an audio
\* track, all of them inside the search window, got none.
C11_Witness ==
    /\ Scheduled
    /\ lastCall.tracks = MixedTimeline
    /\ QueuedElements # {}
    /\ \A src \in { <<1, 3>>, <<1, 4>>, <<1, 5>>, <<1, 6>>, <<1, 7>>,
                     <<2, 1>>, <<3, 1>> } :
          /\ src \notin QueuedElements
          /\ LET e == lastCall.tracks[src[1]].elements[src[2]]
             IN  /\ e.startTime <= lastCall.currentTime + EffectiveRadius
                 /\ ElementEnd(e) >= lastCall.currentTime - TicksPerSecond

----------------------------------------------------------------------------
(* The performance monitor (lib/performance-monitor.ts)                     *)
(*                                                                          *)
(* Frame rates are whole frames per second and memory is in bytes.  The     *)
(* cache hit rate is kept in thousandths and the two durations in tenths    *)
(* of a millisecond, so that values on either side of a threshold are       *)
(* whole numbers.  lastUpdate is the Date.now() of the last frame-rate      *)
(* sample, read from a clock that has ticked once per sample.               *)

PerOne == 1000      \* units of the cache hit rate in 1
PerMs == 10         \* units of a duration in one millisecond
HistoryWindow == 10
MaxSamples == 2     \* frame-rate samples in one behaviour of MonitorSpec

\* Math.round(a / b) for a >= 0 and b > 0
Round(a, b) == (2 * a + b) \div (2 * b)

\* x * 0.8 rounded down; an integer exceeds x * 0.8 exactly when it exceeds this
FourFifths(x) == 4 * (x \div 5) + (4 * (x % 5)) \div 5

\* a threshold table that asks for 30 frames per second
ThresholdsThirtyFps ==
    [ minFrameRate |-> 30,
      maxMemoryUsage |-> 1024 * 1024 * 1024,
      minCacheHitRate |-> (8 * PerOne) \div 10,
      maxVideoDecodingTime |-> 50 * PerMs,
      maxRenderTime |-> 16 * PerMs ]

Thresholds ==
    [ minFrameRate |-> 24,
      maxMemoryUsage |-> 1024 * 1024 * 1024,
      minCacheHitRate |-> (8 * PerOne) \div 10,
      maxVideoDecodingTime |-> 50 * PerMs,
      maxRenderTime |-> 16 * PerMs ]

\* what the monitor is fed: one-second frame counts, heap sizes, the entries
\* of the performance observer and the hit rates pushed by the cache, on
\* either side of every number the monitor compares with
FpsSamples == { 19, 20, 23, 24, 50, 51 }

HeapSizes ==
    { FourFifths(Thresholds.maxMemoryUsage), FourFifths(Thresholds.maxMemoryUsage) + 1,
      Thresholds.maxMemoryUsage, Thresholds.maxMemoryUsage + 1 }

MeasureEntries ==
    { [ name |-> "video-decode", duration |-> d ] : d \in { 500, 501 } }
    \cup { [ name |-> "frame-render", duration |-> d ] : d \in { 160, 161, 200, 201 } }
    \cup { [ name |-> "timeline-scroll", duration |-> 501 ] }

HitRates == { 799, 800 }

RECURSIVE Sum(_)
Sum(q) == IF q = << >> THEN 0 ELSE Head(q) + Sum(Tail(q))

\* a checkMemory that stores a heap size whatever the runtime offers
CheckMemoryUnguarded(m, supported, usedJSHeapSize) ==
    [ m EXCEPT !.memoryUsage = usedJSHeapSize ]

\* checkMemory: reads the heap size when the runtime has performance.memory
CheckMemory(m, supported, usedJSHeapSize) ==
    IF supported THEN [ m EXCEPT !.memoryUsage = usedJSHeapSize ] ELSE m

\* a window that drops the newest sample when it is full
PushSampleDropsNewest(history, fps) ==
    IF Len(history) >= HistoryWindow THEN history ELSE Append(history, fps)

\* the history after updateFrameRate has pushed fps and dropped the oldest
\* sample beyond the window
PushSample(history, fps) ==
    LET pushed == Append(history, fps)
    IN  IF Len(pushed) > HistoryWindow THEN Tail(pushed) ELSE pushed

\* handlePerformanceMeasure: the switch on the name of the entry
HandlePerformanceMeasure(m, name, duration) ==
    CASE name = "video-decode" -> [ m EXCEPT !.videoDecodingTime = duration ]
      [] name = "frame-render" -> [ m EXCEPT !.renderTime = duration ]
      [] OTHER -> m

\* one check of getPerformanceStatus: the issue, with the number its message
\* shows, and the suggestion that goes with it
Check(violated, metric, shown, suggestion) ==
    IF violated
    THEN [ issues |-> << [ metric |-> metric, shown |-> shown ] >>,
           suggestions |-> << suggestion >> ]
    ELSE [ issues |-> << >>, suggestions |-> << >> ]

PerformanceStatus(m) ==
    LET checks ==
          << Check(m.frameRate < Thresholds.minFrameRate,
                   "frameRate", m.frameRate,
                   "Consider reducing video quality or closing other browser tabs"),
             Check(m.memoryUsage > Thresholds.maxMemoryUsage,
                   "memoryUsage", Round(m.memoryUsage \div 1024, 1024),
                   "Try clearing video cache or reducing timeline complexity"),
             Check(m.cacheHitRate < Thresholds.minCacheHitRate,
                   "cacheHitRate", Round(m.cacheHitRate * 100, PerOne),
                   "Allow more time for video preloading or reduce playback speed"),
             Check(m.videoDecodingTime > Thresholds.maxVideoDecodingTime,
                   "videoDecodingTime", Round(m.videoDecodingTime, PerMs),
                   "Try using lower resolution videos or converting to a more efficient codec"),
             Check(m.renderTime > Thresholds.maxRenderTime,
                   "renderTime", Round(m.renderTime, PerMs),
                   "Reduce the number of timeline elements or disable preview effects") >>
        issues == checks[1].issues \o checks[2].issues \o checks[3].issues
                  \o checks[4].issues \o checks[5].issues
        suggestions == checks[1].suggestions \o checks[2].suggestions
                       \o checks[3].suggestions \o checks[4].suggestions
                       \o checks[5].suggestions
    IN  [ isGood |-> Len(issues) = 0, issues |-> issues,
          suggestions |-> suggestions ]

\* a grade without the line for three issues
PerformanceGradeSkipsD(m) ==
    LET issueCount == Len(PerformanceStatus(m).issues)
    IN  IF issueCount = 0 THEN "A"
        ELSE IF issueCount = 1 THEN "B"
        ELSE IF issueCount = 2 THEN "C"
        ELSE "F"

PerformanceGrade(m) ==
    LET issueCount == Len(PerformanceStatus(m).issues)
    IN  IF issueCount = 0 THEN "A"
        ELSE IF issueCount = 1 THEN "B"
        ELSE IF issueCount = 2 THEN "C"
        ELSE IF issueCount = 3 THEN "D"
        ELSE "F"

\* A Record<string, unknown> is the set of its <<key, value>> pairs.
VideoSettings(m) ==
    IF m.frameRate < 20
    THEN { <<"poolSize", 4>>, <<"preloadRadius", 2>>, <<"maxConcurrentPreloads", 1>> }
    ELSE IF m.frameRate > 50
    THEN { <<"poolSize", 12>>, <<"preloadRadius", 5>>, <<"maxConcurrentPreloads", 3>> }
    ELSE {}

\* a memory test against the whole threshold
CacheSettingsAtThreshold(m) ==
    IF m.memoryUsage > Thresholds.maxMemoryUsage
    THEN { <<"maxCacheSize", 100>>, <<"cacheResolution", 20>> }
    ELSE {}

CacheSettings(m) ==
    IF m.memoryUsage > FourFifths(Thresholds.maxMemoryUsage)
    THEN { <<"maxCacheSize", 100>>, <<"cacheResolution", 20>> }
    ELSE {}

UiSettings(m) ==
    IF m.renderTime > 20 * PerMs
    THEN { <<"reducedAnimations", TRUE>>, <<"simplifiedTimeline", TRUE>> }
    ELSE {}

Recommendations(m) ==
    [ videoSettings |-> VideoSettings(m),
      cacheSettings |-> CacheSettings(m),
      uiSettings |-> UiSettings(m) ]

\* the monitor after construction: the first checkMemory has run
MonitorInit ==
    /\ NewPreloader
    /\ NewCache
    /\ memoryInfo \in BOOLEAN
    /\ NewRuntime
    /\ NewContentFill
    /\ \E heap \in HeapSizes : metrics = CheckMemory(NewMetrics, memoryInfo, heap)
    /\ frameRateHistory = << >>
    /\ monitorResult = [ op |-> "new" ]

\* measureFrameRate finds a second has passed and calls updateFrameRate
UpdateFrameRate(fps) ==
    /\ metrics.lastUpdate < MaxSamples
    /\ frameRateHistory' = PushSample(frameRateHistory, fps)
    /\ metrics' = [ metrics EXCEPT
                      !.frameRate = Round(Sum(frameRateHistory'), Len(frameRateHistory')),
                      !.lastUpdate = metrics.lastUpdate + 1 ]
    /\ monitorResult' = [ op |-> "updateFrameRate" ]
    /\ UNCHANGED << runtimeVars, preloaderVars, cacheVars, fillVars >>

\* the 2 s interval runs checkMemory
MemoryInterval(usedJSHeapSize) ==
    /\ memoryCheckInterval
    /\ metrics' = CheckMemory(metrics, memoryInfo, usedJSHeapSize)
    /\ monitorResult' = [ op |-> "checkMemory" ]
    /\ UNCHANGED << frameRateHistory, runtimeVars, preloaderVars, cacheVars, fillVars >>

\* the performance observer delivers a measure entry
ObserveMeasure(name, duration) ==
    /\ performanceObserver
    /\ metrics' = HandlePerformanceMeasure(metrics, name, duration)
    /\ monitorResult' = [ op |-> "handlePerformanceMeasure" ]
    /\ UNCHANGED << frameRateHistory, runtimeVars, preloaderVars, cacheVars, fillVars >>

UpdateCacheHitRate(hitRate) ==
    /\ metrics' = [ metrics EXCEPT !.cacheHitRate = hitRate ]
    /\ monitorResult' = [ op |-> "updateCacheHitRate" ]
    /\ UNCHANGED << frameRateHistory, runtimeVars, preloaderVars, cacheVars, fillVars >>

GetMetrics ==
    /\ monitorResult' = [ op |-> "getMetrics", value |-> metrics ]
    /\ UNCHANGED << metrics, frameRateHistory, runtimeVars, preloaderVars,
                    cacheVars, fillVars >>

GetPerformanceStatus ==
    /\ monitorResult' = [ op |-> "getPerformanceStatus",
                          value |-> PerformanceStatus(metrics) ]
    /\ UNCHANGED << metrics, frameRateHistory, runtimeVars, preloaderVars,
                    cacheVars, fillVars >>

GetPerformanceGrade ==
    /\ monitorResult' = [ op |-> "getPerformanceGrade",
                          value |-> PerformanceGrade(metrics) ]
    /\ UNCHANGED << metrics, frameRateHistory, runtimeVars, preloaderVars,
                    cacheVars, fillVars >>

\* a getRecommendations that applies what it recommends to the preloader
GetRecommendationsApplies ==
    LET r == Recommendations(metrics)
    IN  /\ monitorResult' = [ op |-> "getRecommendations", value |-> r ]
        /\ preloadRadius' =
              IF \E x \in r.videoSettings : x[1] = "preloadRadius"
              THEN Num((CHOOSE x \in r.videoSettings : x[1] = "preloadRadius")[2])
              ELSE preloadRadius
        /\ UNCHANGED << metrics, frameRateHistory, runtimeVars, preloadQueue,
                        isPreloading, maxConcurrentPreloads, currentPreloads,
                        idleCallbacks, planNo, lastCall, discarded, uncaught,
                        lastOp, cacheVars, fillVars >>

GetRecommendations ==
    /\ monitorResult' = [ op |-> "getRecommendations",
                          value |-> Recommendations(metrics) ]
    /\ UNCHANGED << metrics, frameRateHistory, runtimeVars, preloaderVars,
                    cacheVars, fillVars >>

MonitorNext ==
    \/ \E fps \in FpsSamples : UpdateFrameRate(fps)
    \/ \E heap \in HeapSizes : MemoryInterval(heap)
    \/ \E e \in MeasureEntries : ObserveMeasure(e.name, e.duration)
    \/ \E hitRate \in HitRates : UpdateCacheHitRate(hitRate)
    \/ GetMetrics
    \/ GetPerformanceStatus
    \/ GetPerformanceGrade
    \/ GetRecommendations

MonitorSpec == MonitorInit /\ [][MonitorNext]_vars

----------------------------------------------------------------------------
(* The claims about the performance monitor (MonitorSpec).  A getter leaves *)
(* the snapshot alone, so in the state it leaves metrics is what it read.   *)

GiB == 1024 * 1024 * 1024

\* the metrics of the snapshot m that strictly violate their threshold, by
\* the numbers of the threshold table: 24 fps, 1 GiB, 80 %, 50 ms, 16 ms
Violated(m) ==
    { x \in { "frameRate" } : m.frameRate < 24 }
    \cup { x \in { "memoryUsage" } : m.memoryUsage > GiB }
    \cup { x \in { "cacheHitRate" } : 10 * m.cacheHitRate < 8 * PerOne }
    \cup { x \in { "videoDecodingTime" } : m.videoDecodingTime > 50 * PerMs }
    \cup { x \in { "renderTime" } : m.renderTime > 16 * PerMs }

Returned(op) == monitorResult.op = op

\* C17: getPerformanceStatus reports an issue for exactly the metrics that
\* strictly violate their threshold (a metric equal to its threshold is not
\* an issue), one issue for each, one suggestion per issue, and isGood is
\* true exactly when there is no issue.
C17_IssuesAreViolations ==
    Returned("getPerformanceStatus") =>
      LET r == monitorResult.value
      IN  /\ { r.issues[i].metric : i \in DOMAIN r.issues } = Violated(metrics)
          /\ Len(r.issues) = Cardinality(Violated(metrics))
          /\ Len(r.suggestions) = Len(r.issues)
          /\ r.isGood <=> (r.issues = << >>)
          /\ r.isGood \in BOOLEAN

\* C17's case: a status with the frame rate, the memory and the hit rate at
\* their thresholds (no issue) and the two durations beyond theirs.
C17_Witness ==
    /\ Returned("getPerformanceStatus")
    /\ metrics.frameRate = 24
    /\ metrics.memoryUsage = GiB
    /\ 10 * metrics.cacheHitRate = 8 * PerOne
    /\ metrics.videoDecodingTime > 50 * PerMs
    /\ metrics.renderTime > 16 * PerMs
    /\ Len(monitorResult.value.issues) = 2
    /\ ~monitorResult.value.isGood

\* the grades from best to worst
Rank(grade) ==
    CASE grade = "A" -> 0 [] grade = "B" -> 1 [] grade = "C" -> 2
      [] grade = "D" -> 3 [] grade = "F" -> 4

\* snapshots with every combination of metrics within and beyond their
\* thresholds, and the grade of each
ProbeSnapshots ==
    [ frameRate : { 23, 24 }, memoryUsage : { GiB, GiB + 1 },
      cacheHitRate : { 799, 800 }, videoDecodingTime : { 500, 501 },
      renderTime : { 160, 161 }, lastUpdate : { 1 } ]

ProbeGrades == [ m \in ProbeSnapshots |-> PerformanceGrade(m) ]

\* C18: the grade is a function of the number of violated thresholds of the
\* snapshot: 0 gives A, 1 B, 2 C, 3 D, 4 and 5 F; so a snapshot that
\* violates strictly more thresholds never has a better grade.
C18_GradeOfViolations ==
    Returned("getPerformanceGrade") =>
      LET n == Cardinality(Violated(metrics))
      IN  /\ monitorResult.value =
                CASE n = 0 -> "A" [] n = 1 -> "B" [] n = 2 -> "C"
                  [] n = 3 -> "D" [] n \in { 4, 5 } -> "F"
          /\ \A m \in ProbeSnapshots :
                /\ Cardinality(Violated(m)) > n =>
                      Rank(ProbeGrades[m]) >= Rank(monitorResult.value)
                /\ Cardinality(Violated(m)) < n =>
                      Rank(ProbeGrades[m]) <= Rank(monitorResult.value)

\* C18's case: a snapshot that violates three thresholds is graded D, next
\* to probes with more and with fewer violations.
C18_Witness ==
    /\ Returned("getPerformanceGrade")
    /\ Cardinality(Violated(metrics)) = 3
    /\ monitorResult.value = "D"
    /\ \E m \in ProbeSnapshots : Cardinality(Violated(m)) = 5
    /\ \E m \in ProbeSnapshots : Cardinality(Violated(m)) = 0

\* memoryUsage > 80 % of 1 GiB, that is 1 GiB - memoryUsage < 1 GiB / 5
\* (1 GiB is no multiple of 5)
MemoryPressure(m) == GiB - m.memoryUsage <= GiB \div 5

\* C19: getRecommendations derives three independent groups from the
\* snapshot: frameRate < 20 gives videoSettings {poolSize 4, preloadRadius 2,
\* maxConcurrentPreloads 1}, frameRate > 50 gives {12, 5, 3} and a frame rate
\* from 20 to 50 gives none; memoryUsage above 80 % of 1 GiB gives
\* cacheSettings {maxCacheSize 100, cacheResolution 20}; renderTime above
\* 20 ms gives the two simplified-rendering flags; otherwise the group is
\* empty.
C19_RecommendationGroups ==
    Returned("getRecommendations") =>
      LET r == monitorResult.value
      IN  /\ r.videoSettings =
                IF metrics.frameRate < 20
                THEN { <<"poolSize", 4>>, <<"preloadRadius", 2>>,
                       <<"maxConcurrentPreloads", 1>> }
                ELSE IF metrics.frameRate > 50
                THEN { <<"poolSize", 12>>, <<"preloadRadius", 5>>,
                       <<"maxConcurrentPreloads", 3>> }
                ELSE {}
          /\ r.cacheSettings =
                IF MemoryPressure(metrics)
                THEN { <<"maxCacheSize", 100>>, <<"cacheResolution", 20>> }
                ELSE {}
          /\ r.uiSettings =
                IF metrics.renderTime > 20 * PerMs
                THEN { <<"reducedAnimations", TRUE>>, <<"simplifiedTimeline", TRUE>> }
                ELSE {}

\* C19's case: recommendations for a frame rate of 50 (no video settings),
\* with the memory just above 80 % of 1 GiB but within the threshold (cache
\* settings) and a render time of exactly 20 ms (no flags).
C19_Witness ==
    /\ Returned("getRecommendations")
    /\ metrics.frameRate = 50
    /\ metrics.memoryUsage < GiB
    /\ monitorResult.value.videoSettings = {}
    /\ monitorResult.value.cacheSettings # {}
    /\ metrics.renderTime = 20 * PerMs
    /\ monitorResult.value.uiSettings = {}

\* the operations of the monitor that only read
Getters ==
    { "getMetrics", "getPerformanceStatus", "getPerformanceGrade",
      "getRecommendations" }

\* all the operations of the monitor
MonitorOps ==
    Getters \cup { "updateFrameRate", "checkMemory", "handlePerformanceMeasure",
                   "updateCacheHitRate" }

\* C20: recommendations are advisory only.  No step of the monitor (a
\* sample, updateCacheHitRate or a getter) changes the preloader's
\* preloadRadius, maxConcurrentPreloads or queue, nor anything else of the
\* preloader, nor the frames, pools and decodes of the frame cache, and a
\* getter leaves the metrics and the sample window of the monitor unchanged;
\* getMetrics returns the snapshot.
C20_AdvisoryOnly ==
    [][ monitorResult'.op \in MonitorOps =>
          /\ UNCHANGED << preloadRadius, maxConcurrentPreloads, preloadQueue >>
          /\ UNCHANGED preloaderVars
          /\ UNCHANGED cacheVars
          /\ monitorResult'.op \in Getters =>
                UNCHANGED << metrics, frameRateHistory >>
          /\ monitorResult'.op = "getMetrics" => monitorResult'.value = metrics ]_vars

\* C20's case: getRecommendations has recommended a preload radius of 2 and
\* a concurrency of 1 to a preloader that still has its radius 3 and its
\* concurrency 2.
C20_Witness ==
    /\ Returned("getRecommendations")
    /\ <<"preloadRadius", 2>> \in monitorResult.value.videoSettings
    /\ <<"maxConcurrentPreloads", 1>> \in monitorResult.value.videoSettings
    /\ preloadRadius = Num(3)
    /\ maxConcurrentPreloads = Num(2)
    /\ metrics.lastUpdate > 0

----------------------------------------------------------------------------
(* The frame cache (lib/video-cache.ts), modelled from its specification:   *)
(* getFrameAt with its hit, miss and joined outcomes, one lazily created    *)
(* decoder pool per source, the global least-recently-used eviction, the    *)
(* failure of one decode, and clearAll. The seek-storm guard and the `try`  *)
(* variant of getFrameAt are left out. The hit and miss counters are left   *)
(* out as well: getStats does not return them, and cacheResult tells for    *)
(* each call whether it was a hit.                                          *)

SubTicks == 2       \* request times are in half ticks; a frame lasts one tick
MaxFrames == 3      \* the maximum resident frame count
PoolSize == 1       \* decoder slots of one pool
MaxAwaiting == 2    \* getFrameAt calls awaiting a decode at one time
Costs == { 1, 2 }   \* decode costs the decoder reports

\* the quantized timestamp of a request time
Quantize(time) == time \div SubTicks

\* the key of a CachedFrame: (sourceId, quantized timestamp)
Key(sourceId, time) == << sourceId, Quantize(time) >>

\* the getFrameAt calls of the preloader: the jobs processPreloadQueue starts
\* for the first plan, await videoCache.getFrameAt(job.mediaId, job.file,
\* job.targetTime)
PreloadRequests ==
    LET plan == Plan(Sec(10), ShortTimeline, MediaFiles, [num |-> 1, den |-> 1],
                     Num(DefaultPreloadRadius))
        run  == ProcessPreloadQueue(plan, FALSE, 0,
                                    Num(DefaultMaxConcurrentPreloads))
    IN  { [ sourceId |-> job.mediaId, time |-> SubTicks * job.targetTime,
            caller |-> "preload" ] : job \in Range(run.callbacks) }

\* the getFrameAt calls of the render path: four times of one source, two of
\* them within one frame, and one time of another source
RenderRequests ==
    { [ sourceId |-> "v1", time |-> t, caller |-> "render" ] : t \in { 0, 2, 3, 6 } }
    \cup { [ sourceId |-> "v2", time |-> 6, caller |-> "render" ] }

Requests == PreloadRequests \cup RenderRequests

\* the CachedFrame at a key
FoundNothing(key) == {}

Found(key) == { f \in cachedFrames : f.key = key }

\* the decode in flight for a key
PendingNothing(key) == {}

Pending(key) == { d \in inFlight : d.key = key }

\* the frame a caller gets: the decoded image, without the cache's access time
Frame(f) == [ key |-> f.key, cost |-> f.cost ]

\* the number of calls awaiting the decodes in flight
RECURSIVE Awaiting(_)
Awaiting(flights) ==
    IF flights = {} THEN 0
    ELSE LET d == CHOOSE x \in flights : TRUE
         IN  Len(d.waiters) + Awaiting(flights \ { d })

\* the decoder slots of a source's pool that are taken
SlotsInUse(sourceId) ==
    Cardinality({ d \in inFlight : d.key[1] = sourceId /\ d.slot })

\* Every access reads the clock at a later time than the access before it.
\* Access times are only ever compared with one another, so they are kept as
\* ranks: the oldest time in use is 1, and the clock is one after the newest.
Stamps(frames) == { f.lastAccess : f \in frames }

Rebased(frames) ==
    { [ f EXCEPT !.lastAccess =
            Cardinality({ t \in Stamps(frames) : t <= f.lastAccess }) ] :
      f \in frames }

Now(frames) == Cardinality(Stamps(frames)) + 1

\* the frames eviction may take: the least recently accessed of the whole
\* cache and, among those of equal access time, the ones of the largest
\* decode cost
LeastRecent(frames) ==
    { f \in frames : \A g \in frames : f.lastAccess <= g.lastAccess }

VictimsMostRecent(frames) ==
    { f \in frames : \A g \in frames : f.lastAccess >= g.lastAccess }

Victims(frames) ==
    { f \in LeastRecent(frames) : \A g \in LeastRecent(frames) : f.cost >= g.cost }

\* the pools that stay when the frames are as given: a pool is destroyed when
\* its source has left the cache, unless a decode of it is in flight
PoolsAfter(pools, frames, flights) ==
    { s \in pools : \/ \E f \in frames : f.key[1] = s
                    \/ \E d \in flights : d.key[1] = s }

\* the cached frames after a decode for key has failed: as they were
AfterFailureDropsSource(frames, key) == { f \in frames : f.key[1] # key[1] }

AfterFailure(frames, key) == frames

\* getFrameAt(sourceId, fileHandle, time), up to its return on a hit and up
\* to its suspension otherwise
GetFrameAt(sourceId, time, caller) ==
    LET key == Key(sourceId, time)
    IN
    /\  \/ \E f \in Found(key) :
               LET touched == (cachedFrames \ { f })
                                 \cup { [ f EXCEPT !.lastAccess = clock ] }
               IN  /\ cachedFrames' = Rebased(touched)
                   /\ clock' = Now(touched)
                   /\ cacheResult' =
                          [ op |-> "hit", key |-> key, frame |-> Frame(f),
                            to |-> << caller >>,
                            after |-> IF /\ cacheResult.op \in { "hit", "decoded" }
                                         /\ cacheResult.key = key
                                      THEN cacheResult.to ELSE << >> ]
                   /\ UNCHANGED << decoderPools, inFlight >>
        \/ /\ Found(key) = {}
           /\ Awaiting(inFlight) < MaxAwaiting
           /\ \E d \in Pending(key) :
                  inFlight' = (inFlight \ { d })
                      \cup { [ d EXCEPT !.waiters = Append(@, caller) ] }
           /\ cacheResult' = [ op |-> "joined", key |-> key ]
           /\ UNCHANGED << cachedFrames, decoderPools, clock >>
        \/ /\ Found(key) = {}
           /\ Pending(key) = {}
           /\ Awaiting(inFlight) < MaxAwaiting
           /\ decoderPools' = decoderPools \cup { sourceId }
           /\ inFlight' = inFlight
                  \cup { [ key |-> key, slot |-> SlotsInUse(sourceId) < PoolSize,
                           waiters |-> << caller >> ] }
           /\ cacheResult' = [ op |-> "miss", key |-> key ]
           /\ UNCHANGED << cachedFrames, clock >>
    /\ UNCHANGED << preloaderVars, monitorVars, fillVars >>

\* a decode that waited for a decoder slot of its pool gets one
AcquireSlot(key) ==
    /\ \E d \in Pending(key) :
           /\ ~d.slot
           /\ SlotsInUse(key[1]) < PoolSize
           /\ inFlight' = (inFlight \ { d }) \cup { [ d EXCEPT !.slot = TRUE ] }
    /\ cacheResult' = [ op |-> "acquired" ]
    /\ UNCHANGED << cachedFrames, decoderPools, clock >>
    /\ UNCHANGED << preloaderVars, monitorVars, fillVars >>

\* the decoder returns the frame of a key: it is inserted, after an eviction
\* if the cache is full, and every call awaiting it returns it
DecodeResolves(key, cost) ==
    \E d \in Pending(key) :
        /\ d.slot
        /\ LET kept  == cachedFrames \ Found(key)
               gone  == IF Cardinality(kept) < MaxFrames THEN { {} }
                        ELSE { { v } : v \in Victims(kept) }
           IN  \E evicted \in gone :
                   LET frame  == [ key |-> key, cost |-> cost,
                                   lastAccess |-> clock ]
                       frames == (kept \ evicted) \cup { frame }
                   IN  /\ cachedFrames' = Rebased(frames)
                       /\ clock' = Now(frames)
                       /\ inFlight' = inFlight \ { d }
                       /\ decoderPools' =
                              PoolsAfter(decoderPools, frames, inFlight \ { d })
                       /\ cacheResult' =
                              [ op |-> "decoded", key |-> key,
                                frame |-> Frame(frame), to |-> d.waiters,
                                evicted |-> { v.key : v \in evicted } ]
                       /\ UNCHANGED << preloaderVars, monitorVars, fillVars >>

\* the decoder fails for a key, or no slot came free in time: every call
\* awaiting that decode fails with a DecodeFailure, and nothing is inserted
DecodeFails(key) ==
    \E d \in Pending(key) :
        /\ inFlight' = inFlight \ { d }
        /\ cachedFrames' = Rebased(AfterFailure(cachedFrames, key))
        /\ clock' = Now(AfterFailure(cachedFrames, key))
        /\ cacheResult' = [ op |-> "failed", key |-> key, to |-> d.waiters ]
        /\ UNCHANGED decoderPools
        /\ UNCHANGED << preloaderVars, monitorVars, fillVars >>

\* clearAll(): all frames dropped, all pools torn down and the decodes they
\* were running with them, before it returns
ClearAllKeepsPools ==
    /\ cachedFrames' = {}
    /\ inFlight' = {}
    /\ clock' = 1
    /\ cacheResult' = [ op |-> "clearAll", frames |-> Cardinality(cachedFrames),
                        pools |-> Cardinality(decoderPools),
                        aborted |-> Awaiting(inFlight) ]
    /\ UNCHANGED decoderPools
    /\ UNCHANGED << preloaderVars, monitorVars, fillVars >>

ClearAll ==
    /\ cachedFrames' = {}
    /\ decoderPools' = {}
    /\ inFlight' = {}
    /\ clock' = 1
    /\ cacheResult' = [ op |-> "clearAll", frames |-> Cardinality(cachedFrames),
                        pools |-> Cardinality(decoderPools),
                        aborted |-> Awaiting(inFlight) ]
    /\ UNCHANGED << preloaderVars, monitorVars, fillVars >>

\* getStats(): the pools, the pools with a decode running, the resident frames
CacheStats ==
    [ totalSinks   |-> Cardinality(decoderPools),
      activeSinks  |-> Cardinality({ s \in decoderPools : SlotsInUse(s) > 0 }),
      cachedFrames |-> Cardinality(cachedFrames) ]

CacheKeys == { Key(r.sourceId, r.time) : r \in Requests }

CacheNext ==
    \/ \E r \in Requests : GetFrameAt(r.sourceId, r.time, r.caller)
    \/ \E key \in CacheKeys : AcquireSlot(key)
    \/ \E key \in CacheKeys, cost \in Costs : DecodeResolves(key, cost)
    \/ \E key \in CacheKeys : DecodeFails(key)
    \/ ClearAll

CacheSpec == Init /\ [][CacheNext]_vars

----------------------------------------------------------------------------
(* Claims about the frame cache *)

\* Every step of the cache writes cacheResult, so cacheResult' tells what a
\* step is: a getFrameAt call for a key, the return of a decode, a clearAll
Called(key) ==
    /\ cacheResult'.op \in { "hit", "miss", "joined" }
    /\ cacheResult'.key = key

Decoded(key) == cacheResult'.op = "decoded" /\ cacheResult'.key = key

Failed(key) == cacheResult'.op = "failed" /\ cacheResult'.key = key

Cleared == cacheResult'.op = "clearAll"

\* the keys whose frame an earlier call has returned since the last clearAll,
\* as far as the state tells: every resident frame was returned to the calls
\* that awaited its decode, and so was the frame the last insertion evicted
Served(key) ==
    \/ Found(key) # {}
    \/ cacheResult.op = "decoded" /\ key \in cacheResult.evicted

\* C12 as stated: a getFrameAt call for a key that an earlier call has
\* returned a frame for, with no clearAll in between, is a cache hit
C12_SecondCallAlwaysHits ==
    [][ \A key \in CacheKeys :
            Served(key) /\ Called(key) => cacheResult'.op = "hit" ]_vars

\* C12: a getFrameAt call that directly follows a call for the same key that
\* returned a frame, and more generally a call for a key whose frame is
\* resident, is a cache hit: it returns the frame the earlier call returned
\* and invokes no decoder, whichever of the preloader and the render path
\* made the two calls
C12_CacheCoherency ==
    [][ \A key \in CacheKeys :
            Called(key) =>
                /\ \A f \in Found(key) :
                       /\ cacheResult'.op = "hit"
                       /\ cacheResult'.frame = Frame(f)
                       /\ UNCHANGED << inFlight, decoderPools >>
                /\ cacheResult.op \in { "hit", "decoded" } /\ cacheResult.key = key
                       => /\ cacheResult'.op = "hit"
                          /\ cacheResult'.frame = cacheResult.frame
                          /\ cacheResult'.after = cacheResult.to
                          /\ UNCHANGED << inFlight, decoderPools >> ]_vars

\* a foreground call was a hit directly after the preload job's call for the
\* same key had returned from its decode
C12_Witness ==
    /\ cacheResult.op = "hit"
    /\ cacheResult.to = << "render" >>
    /\ cacheResult.after = << "preload" >>

\* the keys of the resident frames
Resident(frames) == { f.key : f \in frames }

\* the frame of key a was accessed before the frame of key b
Older(frames, a, b) ==
    \E f, g \in frames : f.key = a /\ g.key = b /\ f.lastAccess < g.lastAccess

\* C13: the resident frames never exceed MaxFrames; an insertion evicts a
\* frame exactly when the cache is full, and then the one frame of the whole
\* cache, whatever its source, that was accessed least recently; a hit makes
\* its frame the most recently accessed one, and no step changes the order
\* of the frames it does not access; nothing but an insertion past budget
\* and clearAll removes a frame
C13_GlobalLRU ==
    [][ /\ Cardinality(cachedFrames') <= MaxFrames
        /\ \A key \in CacheKeys :
               /\ Decoded(key) =>
                      LET gone == { f \in cachedFrames :
                                        f.key \notin Resident(cachedFrames') }
                      IN  /\ key \in Resident(cachedFrames')
                          /\ gone # {} <=> Cardinality(cachedFrames) = MaxFrames
                          /\ Cardinality(gone) <= 1
                          /\ \A f \in gone, g \in cachedFrames :
                                 f.lastAccess <= g.lastAccess
                          /\ \A g \in cachedFrames' :
                                 g.key # key => Older(cachedFrames', g.key, key)
               /\ Called(key) =>
                      /\ Resident(cachedFrames') = Resident(cachedFrames)
                      /\ Found(key) # {} =>
                             \A g \in cachedFrames' :
                                 g.key # key => Older(cachedFrames', g.key, key)
        /\ \A a, b \in Resident(cachedFrames) \cap Resident(cachedFrames') :
               (/\ cacheResult'.op \in { "hit", "decoded" } => cacheResult'.key # a
                /\ Older(cachedFrames, a, b))
               => Older(cachedFrames', a, b)
        /\ cacheResult'.op \notin { "decoded", "clearAll" }
               => Resident(cachedFrames) \subseteq Resident(cachedFrames') ]_vars

\* the scenario with capacity 3: (v1,0), (v1,1), (v1,2) were inserted,
\* (v1,0) was accessed again, and the insertion of (v1,3) has evicted (v1,1)
C13_Witness ==
    /\ MaxFrames = 3
    /\ cacheResult.op = "decoded"
    /\ cacheResult.key = << "v1", 3 >>
    /\ cacheResult.evicted = { << "v1", 1 >> }
    /\ Resident(cachedFrames) = { << "v1", 0 >>, << "v1", 2 >>, << "v1", 3 >> }
    /\ Older(cachedFrames, << "v1", 2 >>, << "v1", 0 >>)

\* a step that is the call getFrameAt of request r
CallOf(r) == GetFrameAt(r.sourceId, r.time, r.caller)

\* C14: when a decode fails, the DecodeFailure goes to the calls that awaited
\* that decode and to no other, no frame is inserted for its key, and every
\* cached frame, every pool and every other decode in flight stays as it
\* was; right after the failure the cache takes a call for any key, of the
\* failed source or of another, and every decode that holds a slot can
\* return its frame
C14_FailureDoesNotPoison ==
    /\ [][ \A key \in CacheKeys :
               Failed(key) =>
                   /\ \E d \in Pending(key) :
                          /\ cacheResult'.to = d.waiters
                          /\ inFlight' = inFlight \ { d }
                   /\ key \notin Resident(cachedFrames')
                   /\ cachedFrames' = cachedFrames
                   /\ decoderPools' = decoderPools ]_vars
    /\ [](cacheResult.op = "failed" =>
              /\ \A r \in Requests : ENABLED CallOf(r)
              /\ \A d \in inFlight :
                     d.slot => \A cost \in Costs : ENABLED DecodeResolves(d.key, cost))

\* the decode of (v2,3) has failed for its caller while a frame of v1 was
\* cached and the decode of (v1,3) was in flight, which can still return
C14_Witness ==
    /\ cacheResult.op = "failed"
    /\ cacheResult.key = << "v2", 3 >>
    /\ cacheResult.to = << "render" >>
    /\ Found(<< "v2", 3 >>) = {}
    /\ \E f \in cachedFrames : f.key[1] = "v1"
    /\ Pending(<< "v1", 3 >>) # {}
    /\ ENABLED DecodeResolves(<< "v1", 3 >>, 1)
    /\ ENABLED GetFrameAt("v1", 0, "render")

\* the decodes in flight for a key, read off the state
Decoding(key) == { d \in inFlight : d.key = key }

\* C15: no key ever has two decodes in flight or two cached frames, and no
\* decode runs for a key whose frame is cached; a getFrameAt call for a key
\* with a decode in flight starts no decode: it joins that decode's waiters
\* and changes nothing else; when the decode returns, its one frame goes to
\* all of its waiters and is the one cached frame of the key
C15_NoDuplicateDecode ==
    /\ [](\A key \in CacheKeys :
              /\ Cardinality(Decoding(key)) <= 1
              /\ Cardinality({ f \in cachedFrames : f.key = key }) <= 1
              /\ Decoding(key) = {} \/ key \notin Resident(cachedFrames))
    /\ [][ \A key \in CacheKeys :
               /\ Called(key) /\ Decoding(key) # {} =>
                      /\ cacheResult'.op = "joined"
                      /\ Cardinality(inFlight') = Cardinality(inFlight)
                      /\ \E d \in Decoding(key) :
                             /\ Len(d.waiters) >= 1
                             /\ \E caller \in { "preload", "render" } :
                                    inFlight' = (inFlight \ { d }) \cup
                                        { [ d EXCEPT !.waiters = Append(@, caller) ] }
                      /\ UNCHANGED << cachedFrames, decoderPools >>
               /\ Decoded(key) =>
                      /\ \E d \in Decoding(key) :
                             /\ cacheResult'.to = d.waiters
                             /\ inFlight' = inFlight \ { d }
                      /\ \E f \in cachedFrames' :
                             f.key = key /\ Frame(f) = cacheResult'.frame ]_vars

\* the decode of a key has returned one frame to the preload job that
\* started it and to the render call that joined it while it was in flight
C15_Witness ==
    /\ cacheResult.op = "decoded"
    /\ cacheResult.to = << "preload", "render" >>
    /\ Cardinality({ f \in cachedFrames : f.key = cacheResult.key }) = 1

\* C16: clearAll is one step, after which no frame, no pool and no decode is
\* left: getStats reports cachedFrames = 0, totalSinks = 0 and
\* activeSinks = 0; the cache takes a call for any key, and the call that
\* follows clearAll is a miss that creates the pool of its source anew and
\* starts a decode on a slot of it
C16_ClearAllEmpties ==
    /\ [][ /\ Cleared =>
                  /\ cachedFrames' = {}
                  /\ decoderPools' = {}
                  /\ inFlight' = {}
                  /\ cacheResult'.frames = Cardinality(cachedFrames)
                  /\ cacheResult'.pools = Cardinality(decoderPools)
           /\ \A key \in CacheKeys :
                  cacheResult.op = "clearAll" /\ Called(key) =>
                      /\ cacheResult'.op = "miss"
                      /\ decoderPools' = { key[1] }
                      /\ \E d \in inFlight' : d.key = key /\ d.slot
                      /\ cachedFrames' = {} ]_vars
    /\ [](cacheResult.op = "clearAll" =>
              /\ CacheStats = [ totalSinks |-> 0, activeSinks |-> 0,
                                cachedFrames |-> 0 ]
              /\ \A r \in Requests : ENABLED CallOf(r))

\* clearAll has dropped a full cache with the pools of both sources while
\* calls were awaiting decodes, and a call can follow
C16_Witness ==
    /\ cacheResult.op = "clearAll"
    /\ cacheResult.frames = MaxFrames
    /\ cacheResult.pools = 2
    /\ cacheResult.aborted > 0
    /\ CacheStats.cachedFrames = 0
    /\ CacheStats.totalSinks = 0
    /\ ENABLED GetFrameAt("v1", 0, "render")

----------------------------------------------------------------------------
(* The frame-rate sampler over more than one window: measureFrameRate, the  *)
(* requestAnimationFrame callback of startFrameRateMonitoring, alone.       *)

MaxWindowSamples == 12  \* frame-rate samples in one behaviour of WindowSpec

\* what measureFrameRate finds when a second has passed: the frames counted
\* and the milliseconds since the last sample, at least 1000
FrameCounts == { [ frameCount |-> 24, elapsed |-> 1000 ],
                 [ frameCount |-> 60, elapsed |-> 1016 ] }

\* Math.round((frameCount * 1000) / (currentTime - lastTime))
Fps(frameCount, elapsed) == Round(frameCount * 1000, elapsed)

\* history: all the samples taken so far, oldest first
Samples ==
    IF monitorResult.op = "measureFrameRate" THEN monitorResult.samples ELSE << >>

\* measureFrameRate in a frame where currentTime - lastTime >= 1000: it
\* computes the sample and calls updateFrameRate
MeasureFrameRate(frameCount, elapsed) ==
    LET fps == Fps(frameCount, elapsed)
    IN  /\ elapsed >= 1000
        /\ Len(Samples) < MaxWindowSamples
        /\ frameRateHistory' = PushSample(frameRateHistory, fps)
        /\ metrics' = [ metrics EXCEPT
                          !.frameRate = Round(Sum(frameRateHistory'),
                                              Len(frameRateHistory')),
                          !.lastUpdate = metrics.lastUpdate + 1 ]
        /\ monitorResult' = [ op |-> "measureFrameRate", fps |-> fps,
                              samples |-> Append(Samples, fps) ]
        /\ UNCHANGED << runtimeVars, preloaderVars, cacheVars, fillVars >>

WindowNext ==
    \E c \in FrameCounts : MeasureFrameRate(c.frameCount, c.elapsed)

WindowSpec == MonitorInit /\ [][WindowNext]_vars

\* the last n elements of a sequence
Last(q, n) == SubSeq(q, Len(q) - n + 1, Len(q))

Min(x, y) == IF x <= y THEN x ELSE y

\* C21 as stated: after a sample the reported frame rate is the arithmetic
\* mean of the samples in the window
C21_ExactMean ==
    monitorResult.op = "measureFrameRate" =>
        metrics.frameRate * Len(frameRateHistory) = Sum(frameRateHistory)

\* C21: after every sample the history is the most recent min(n, 10) of the
\* n samples taken, oldest first, never longer than 10, and the reported
\* frame rate is the arithmetic mean of that window rounded to the nearest
\* whole number, a half rounding up
C21_WindowMean ==
    monitorResult.op = "measureFrameRate" =>
        LET n == Len(Samples)
        IN  /\ frameRateHistory = Last(Samples, Min(n, 10))
            /\ Len(frameRateHistory) <= 10
            /\ metrics.lastUpdate = n
            /\ 2 * Len(frameRateHistory) * metrics.frameRate
                   <= 2 * Sum(frameRateHistory) + Len(frameRateHistory)
            /\ 2 * Len(frameRateHistory) * metrics.frameRate
                   > 2 * Sum(frameRateHistory) - Len(frameRateHistory)

\* twelve samples were taken, the two oldest have left the window, and the
\* window holds both a sample that differs from the ones dropped
C21_Witness ==
    /\ monitorResult.op = "measureFrameRate"
    /\ Len(Samples) = 12
    /\ Len(frameRateHistory) = 10
    /\ Samples[1] # Samples[3]
    /\ Samples[2] # Samples[12]
    /\ frameRateHistory[1] = Samples[3]

----------------------------------------------------------------------------
(* The monitor in its runtime: the measurement spans (startMeasure,         *)
(* endMeasure and the performance observer's callback) and destroy, beside  *)
(* the two periodic samplers.  Marks are never cleared, and                 *)
(* performance.measure(name, start, end) reads the latest mark of each      *)
(* name and throws when there is no start mark.                             *)

MaxMarks == 4       \* performance.mark calls in one behaviour of RuntimeSpec

\* the samples the two periodic samplers bring in RuntimeSpec
RuntimeFps == { 24 }
RuntimeHeaps == { Thresholds.maxMemoryUsage + 1 }

\* performance.mark(name): every mark is made at a later time than the last
Mark(name, kind) == [ marks EXCEPT ![<< name, kind >>] = performanceNow + 1 ]

\* startMeasure(name)
StartMeasure(name) ==
    /\ performanceNow < MaxMarks
    /\ marks' = Mark(name, "start")
    /\ performanceNow' = performanceNow + 1
    /\ monitorResult' = [ op |-> "startMeasure", name |-> name ]
    /\ UNCHANGED << metrics, frameRateHistory, memoryInfo, measures,
                    performanceObserver, memoryCheckInterval, preloaderVars,
                    cacheVars, fillVars >>

\* the entry performance.measure makes from the latest start mark to the end
\* mark just made; paired is history: whether startMeasure(name) was called
\* since the last endMeasure(name)
MeasureEntry(name) ==
    [ name |-> name,
      duration |-> performanceNow + 1 - marks[<< name, "start" >>],
      paired |-> marks[<< name, "start" >>] > marks[<< name, "end" >>] ]

\* endMeasure(name): the end mark, then the measure, which throws into the
\* catch block when no start mark of the name was ever made; a connected
\* observer gets the entry queued
EndMeasure(name) ==
    /\ performanceNow < MaxMarks
    /\ marks' = Mark(name, "end")
    /\ performanceNow' = performanceNow + 1
    /\ IF marks[<< name, "start" >>] = 0
       THEN /\ measures' = measures
            /\ monitorResult' = [ op |-> "endMeasure", name |-> name,
                                  warned |-> TRUE, threw |-> FALSE ]
       ELSE /\ measures' = IF performanceObserver
                           THEN Append(measures, MeasureEntry(name))
                           ELSE measures
            /\ monitorResult' = [ op |-> "endMeasure", name |-> name,
                                  warned |-> FALSE, threw |-> FALSE ]
    /\ UNCHANGED << metrics, frameRateHistory, memoryInfo, performanceObserver,
                    memoryCheckInterval, preloaderVars, cacheVars, fillVars >>

\* for (const entry of list.getEntries()) this.handlePerformanceMeasure(entry)
RECURSIVE HandleEntries(_, _)
HandleEntries(m, entries) ==
    IF entries = << >> THEN m
    ELSE HandleEntries(HandlePerformanceMeasure(m, Head(entries).name,
                                                Head(entries).duration),
                       Tail(entries))

\* the callback of the performance observer, with the entries queued so far
ObserverCallback ==
    /\ performanceObserver
    /\ measures # << >>
    /\ metrics' = HandleEntries(metrics, measures)
    /\ measures' = << >>
    /\ monitorResult' = [ op |-> "observerCallback", entries |-> measures ]
    /\ UNCHANGED << frameRateHistory, memoryInfo, marks, performanceNow,
                    performanceObserver, memoryCheckInterval, preloaderVars,
                    cacheVars, fillVars >>

\* destroy(): disconnects the observer, which drops what it had queued, and
\* clears the memory interval; the requestAnimationFrame loop is not stopped
Destroy ==
    /\ performanceObserver' = FALSE
    /\ memoryCheckInterval' = FALSE
    /\ measures' = << >>
    /\ monitorResult' = [ op |-> "destroy" ]
    /\ UNCHANGED << metrics, frameRateHistory, memoryInfo, marks,
                    performanceNow, preloaderVars, cacheVars, fillVars >>

RuntimeNext ==
    \/ \E name \in MeasureNames : StartMeasure(name)
    \/ \E name \in MeasureNames : EndMeasure(name)
    \/ ObserverCallback
    \/ Destroy
    \/ \E fps \in RuntimeFps : UpdateFrameRate(fps)
    \/ \E heap \in RuntimeHeaps : MemoryInterval(heap)

RuntimeSpec == MonitorInit /\ [][RuntimeNext]_vars

----------------------------------------------------------------------------
(* Claims about the monitor in its runtime (RuntimeSpec) *)

\* the entries of properly paired spans among those queued
Paired(entries) == SelectSeq(entries, LAMBDA e : e.paired)

\* C22 as stated: endMeasure never throws to its caller, and the two
\* timings change only in a callback of the observer, which changes them as
\* if it had been given the entries of the properly paired spans alone: the
\* entry of an endMeasure with no startMeasure of its name since the last
\* endMeasure of that name leaves them as they are
C22_UnpairedIgnored ==
    [][ /\ monitorResult'.op = "endMeasure" =>
               /\ ~monitorResult'.threw
               /\ metrics' = metrics
        /\ monitorResult'.op = "observerCallback" =>
               /\ metrics'.videoDecodingTime =
                      HandleEntries(metrics, Paired(measures)).videoDecodingTime
               /\ metrics'.renderTime =
                      HandleEntries(metrics, Paired(measures)).renderTime
        /\ monitorResult'.op \notin { "observerCallback" } =>
               /\ metrics'.videoDecodingTime = metrics.videoDecodingTime
               /\ metrics'.renderTime = metrics.renderTime ]_vars

\* C23: in a runtime without performance.memory every checkMemory, the one
\* of the constructor and the one of each 2 s tick, returns normally and
\* memoryUsage is 0 in every state, so getPerformanceStatus never reports
\* the memory issue and getRecommendations never recommends cache settings
C23_NoMemoryIntrospection ==
    ~memoryInfo =>
        /\ metrics.memoryUsage = 0
        /\ \A heap \in HeapSizes :
               memoryCheckInterval => ENABLED MemoryInterval(heap)
        /\ Returned("getPerformanceStatus") =>
               \A i \in DOMAIN monitorResult.value.issues :
                   monitorResult.value.issues[i].metric # "memoryUsage"
        /\ Returned("getRecommendations") =>
               monitorResult.value.cacheSettings = {}

\* a 2 s tick has run checkMemory in a runtime without performance.memory,
\* after frame-rate samples, and has left memoryUsage at 0
C23_Witness ==
    /\ ~memoryInfo
    /\ Returned("checkMemory")
    /\ metrics.lastUpdate > 0
    /\ metrics.memoryUsage = 0

\* C24 as stated: in every state, after whatever operations, destroy among
\* them, the performance observer is connected and the memory interval is
\* set, so the next 2 s tick still runs checkMemory and the entries of
\* finished spans still reach the observer's callback
C24_AlwaysSampling ==
    /\ performanceObserver
    /\ memoryCheckInterval
    /\ \A heap \in RuntimeHeaps : ENABLED MemoryInterval(heap)
    /\ measures # << >> => ENABLED ObserverCallback

----------------------------------------------------------------------------
(* Further claims about the preloader *)

\* C25: a job that leaves the queue has a priority at least as high as every
\* job of its plan that stays in the queue, the jobs one step takes off the
\* queue leave it from the head, and in every state each job in flight has
\* a priority at least as high as the jobs of its plan that still wait
C25_DispatchOrder ==
    /\ [][ \A job \in Started :
               /\ \A i \in DOMAIN preloadQueue' :
                      /\ preloadQueue'[i].plan = job.plan
                      /\ preloadQueue'[i].priority <= job.priority
                      /\ preloadQueue'[i].idx > job.idx
               /\ \A other \in Started :
                      other.idx < job.idx => other.priority >= job.priority ]_vars
    /\ [](\A job \in idleCallbacks : \A i \in DOMAIN preloadQueue :
              preloadQueue[i].plan = job.plan
                  => preloadQueue[i].priority <= job.priority)

\* two jobs of one plan are in flight while jobs of that plan wait, one of
\* them with a strictly lower priority than either
C25_Witness ==
    /\ Cardinality(idleCallbacks) >= 2
    /\ \E i \in DOMAIN preloadQueue : \A job \in idleCallbacks :
           /\ preloadQueue[i].plan = job.plan
           /\ preloadQueue[i].priority < job.priority
    /\ \E a, b \in idleCallbacks : a.priority > b.priority

C27_PreloadingIffActive == isPreloading <=> (currentPreloads > 0)

\* the step is a job's callback finishing, its decode resolved or rejected
Settles == lastOp'.op \in { "resolved", "rejected" }

\* C28, as claimed: activePreloads is never negative and counts the jobs
\* taken off the queue whose decode has not settled, and schedulePreload,
\* clearQueue and configure never change it.  Refuted: schedulePreload
\* dispatches jobs itself and raises the counter by their number.
C28_CallsNeverChangeCount ==
    /\ [](currentPreloads >= 0 /\ currentPreloads = Cardinality(idleCallbacks))
    /\ [][ lastOp'.op \in { "schedulePreload", "clearQueue", "configure" } =>
              UNCHANGED currentPreloads ]_vars

\* C28, amended: activePreloads is never negative and equals the number of
\* jobs taken off the queue whose decode has not settled.  A dispatched job
\* leaves the queue for good and raises the counter by one; its settling,
\* resolved or rejected alike, lowers it by one.  clearQueue and configure
\* never change it; schedulePreload changes it only by the jobs it
\* dispatches.
C28_ActiveCount ==
    /\ [](/\ currentPreloads >= 0
          /\ currentPreloads = Cardinality(idleCallbacks)
          /\ Range(preloadQueue) \cap idleCallbacks = {})
    /\ [][ /\ Started \subseteq Range(preloadQueue) \cup Range(lastCall'.plan)
           /\ \A job \in Range(preloadQueue') :
                 job \notin Started /\
                 (job \in Range(preloadQueue) \/ job.plan > planNo)
           /\ \A job \in idleCallbacks \cup Started : job.plan <= planNo'
           /\ Settles =>
                 /\ \E job \in idleCallbacks :
                       idleCallbacks' = (idleCallbacks \ {job}) \cup Started
                 /\ currentPreloads' =
                       currentPreloads - 1 + Cardinality(Started)
           /\ lastOp'.op = "schedulePreload" =>
                 /\ idleCallbacks' = idleCallbacks \cup Started
                 /\ currentPreloads' = currentPreloads + Cardinality(Started)
           /\ lastOp'.op \in { "clearQueue", "configure" } =>
                 UNCHANGED << currentPreloads, idleCallbacks >> ]_vars

\* C28's case: a decode was rejected while another job was in flight, after
\* a clearQueue had dropped waiting jobs
C28_Witness ==
    /\ lastOp.op = "rejected"
    /\ currentPreloads = 1
    /\ discarded # {}
    /\ preloadQueue = << >>

----------------------------------------------------------------------------
(* A further claim about the performance monitor (MonitorSpec) *)

\* the monitor has received no frame-rate sample and no hit rate (a pushed
\* hit rate is never 0 here)
Fresh == metrics.lastUpdate = 0 /\ metrics.cacheHitRate = 0 /\ 0 \notin HitRates

ShrunkenVideoSettings ==
    { <<"poolSize", 4>>, <<"preloadRadius", 2>>, <<"maxConcurrentPreloads", 1>> }

\* C29: a monitor that has received no frame-rate sample and no hit rate,
\* whatever else it has received, reports isGood = false with at least the
\* frame-rate issue and the hit-rate issue, has grade C or worse, and
\* recommends the shrunken video settings.
C29_FreshMonitorIsPoor ==
    Fresh =>
      /\ Returned("getPerformanceStatus") =>
            LET r == monitorResult.value
            IN  /\ r.isGood = FALSE
                /\ \E i \in DOMAIN r.issues :
                      r.issues[i] = [ metric |-> "frameRate", shown |-> 0 ]
                /\ \E i \in DOMAIN r.issues :
                      r.issues[i] = [ metric |-> "cacheHitRate", shown |-> 0 ]
      /\ Returned("getPerformanceGrade") =>
            monitorResult.value \in { "C", "D", "F" }
      /\ Returned("getRecommendations") =>
            monitorResult.value.videoSettings = ShrunkenVideoSettings

\* C29's case: the status of a fresh monitor whose memory, decoding time and
\* render time are within their thresholds: exactly the two issues
C29_Witness ==
    /\ Fresh
    /\ Returned("getPerformanceStatus")
    /\ Len(monitorResult.value.issues) = 2
    /\ ~monitorResult.value.isGood

----------------------------------------------------------------------------
(* The content-fill service (content-fill-service.ts), its store            *)
(* (content-fill-store.ts) and the fal.ai provider (part_006).  A run is    *)
(* one call of processContentFill; between two of its awaits the service    *)
(* runs without interruption, and cancelJob, retryJob and other runs come   *)
(* in at the awaits.  The project has one track with one video element.     *)

MaxFillCalls == 2

FillElements == { "e1" }
FillTrack == "t1"

\* an elementId that is not on the timeline
NoElement == "none"

\* the percentages the progress callbacks are called with
ProgressReports == { 50 }

\* a field that is undefined
Absent == "undefined"

ResultUrl == "https://fal.media/result.mp4"

\* what provider.processVideo resolves with: it catches its own errors and
\* returns a job with status completed (with or without a video url) or
\* failed (with the error)
ProviderResults ==
    { [ status |-> "completed", resultUrl |-> ResultUrl, error |-> Absent ],
      [ status |-> "completed", resultUrl |-> Absent, error |-> Absent ],
      [ status |-> "failed", resultUrl |-> Absent, error |-> "fal.ai error" ] }

\* createJob: the job it appends
NewJob(elementId, trackId) ==
    [ elementId |-> elementId, trackId |-> trackId, status |-> "pending",
      progress |-> 0, completedAt |-> FALSE, logs |-> << >>,
      resultUrl |-> Absent, error |-> Absent ]

\* { ...job, ...updates }: a field of updates replaces the job's, also when
\* its value is undefined
Merge(job, updates) ==
    [ f \in DOMAIN job |-> IF f \in DOMAIN updates THEN updates[f] ELSE job[f] ]

\* the store's updateJob
UpdateJob(jobs, jobId, updates) ==
    [ i \in DOMAIN jobs |-> IF i = jobId THEN Merge(jobs[i], updates) ELSE jobs[i] ]

\* the store's addJobLog
AddJobLog(jobs, jobId, log) ==
    [ i \in DOMAIN jobs |->
        IF i = jobId THEN [ jobs[i] EXCEPT !.logs = Append(@, log) ] ELSE jobs[i] ]

RECURSIVE AddJobLogs(_, _, _)
AddJobLogs(jobs, jobId, logs) ==
    IF logs = << >> THEN jobs
    ELSE AddJobLogs(AddJobLog(jobs, jobId, Head(logs)), jobId, Tail(logs))

\* the store's createJob: the id of the job of this element that is
\* processing if there is one (find: the first), a new job otherwise
CreateJob(jobs, elementId, trackId) ==
    LET existing == { i \in DOMAIN jobs :
                        /\ jobs[i].elementId = elementId
                        /\ jobs[i].trackId = trackId
                        /\ jobs[i].status = "processing" }
    IN  IF existing # {}
        THEN [ jobs |-> jobs, created |-> FALSE,
               id |-> CHOOSE i \in existing : \A k \in existing : i <= k ]
        ELSE [ jobs |-> Append(jobs, NewJob(elementId, trackId)),
               created |-> TRUE, id |-> Len(jobs) + 1 ]

\* Math.round(10 + progress * 0.4), Math.round(50 + progress * 0.4) and
\* Math.round(90 + progress * 0.1)
MaskProgress(progress) == Round(100 + 4 * progress, 10)
SourceProgress(progress) == Round(500 + 4 * progress, 10)
ProviderProgress(progress) == Round(900 + progress, 10)

\* processContentFill down to its first await inside the try block: the
\* early returns (no API key, no such element), createJob, the update to
\* processing and the first log
ProcessContentFill(elementId, trackId, apiKey) ==
    /\ IF ~apiKey \/ elementId \notin FillElements
       THEN UNCHANGED << fillJobs, activeJobId, fillRuns >>
       ELSE LET c == CreateJob(fillJobs, elementId, trackId)
                processing == UpdateJob(c.jobs, c.id,
                                        [ status |-> "processing", progress |-> 0 ])
            IN  /\ Len(fillRuns) < MaxFillCalls
                /\ fillJobs' = AddJobLog(processing, c.id,
                                  "Starting fal.ai WAN-VACE 14B processing...")
                /\ activeJobId' = IF c.created THEN c.id ELSE activeJobId
                /\ fillRuns' = Append(fillRuns, [ job |-> c.id, pc |-> "import" ])
    /\ UNCHANGED << resultMedia, timelineResults, cancelledJobs >>
    /\ UNCHANGED << preloaderVars, monitorVars, cacheVars >>

\* retryJob: processContentFill on the element of the job, if there is one
RetryJob(jobId, apiKey) ==
    IF jobId \in DOMAIN fillJobs
    THEN ProcessContentFill(fillJobs[jobId].elementId, fillJobs[jobId].trackId,
                            apiKey)
    ELSE /\ UNCHANGED << fillJobs, activeJobId, fillRuns, resultMedia,
                         timelineResults, cancelledJobs >>
         /\ UNCHANGED << preloaderVars, monitorVars, cacheVars >>

\* the run r goes on from the await it was suspended at
Resume(r, pc, next, jobs) ==
    /\ r \in DOMAIN fillRuns
    /\ fillRuns[r].pc = pc
    /\ fillRuns' = [ fillRuns EXCEPT ![r].pc = next ]
    /\ fillJobs' = jobs

\* the catch block of processContentFill: a step of the pipeline threw
ProviderError(r, pc) ==
    /\ r \in DOMAIN fillRuns
    /\ Resume(r, pc, "returned",
              AddJobLog(UpdateJob(fillJobs, fillRuns[r].job,
                                  [ status |-> "failed",
                                    error |-> "Unknown provider error" ]),
                        fillRuns[r].job, "Error: Unknown provider error"))
    /\ UNCHANGED << activeJobId, resultMedia, timelineResults, cancelledJobs >>
    /\ UNCHANGED << preloaderVars, monitorVars, cacheVars >>

\* the import of the mask video generator resolves (ok) or fails
MaskGeneratorImported(r, ok) ==
    /\ r \in DOMAIN fillRuns
    /\ IF ok
       THEN /\ Resume(r, "import", "mask",
                      AddJobLog(fillJobs, fillRuns[r].job, "Generating mask video..."))
            /\ UNCHANGED << activeJobId, resultMedia, timelineResults,
                            cancelledJobs >>
            /\ UNCHANGED << preloaderVars, monitorVars, cacheVars >>
       ELSE ProviderError(r, "import")

\* a progress callback of the step the run r awaits
ProgressCallback(r, progress) ==
    /\ r \in DOMAIN fillRuns
    /\ fillRuns[r].pc \in { "mask", "source", "provider" }
    /\ LET shown == CASE fillRuns[r].pc = "mask" -> MaskProgress(progress)
                      [] fillRuns[r].pc = "source" -> SourceProgress(progress)
                      [] fillRuns[r].pc = "provider" -> ProviderProgress(progress)
       IN  fillJobs' = UpdateJob(fillJobs, fillRuns[r].job, [ progress |-> shown ])
    /\ UNCHANGED << activeJobId, fillRuns, resultMedia, timelineResults,
                    cancelledJobs >>
    /\ UNCHANGED << preloaderVars, monitorVars, cacheVars >>

\* generateMaskVideo resolves (ok) or rejects
MaskVideoGenerated(r, ok) ==
    /\ r \in DOMAIN fillRuns
    /\ IF ok
       THEN /\ Resume(r, "mask", "source",
                      AddJobLogs(fillJobs, fillRuns[r].job,
                                 << "Mask video generated.",
                                    "Processing source video (trim + grey mask)..." >>))
            /\ UNCHANGED << activeJobId, resultMedia, timelineResults,
                            cancelledJobs >>
            /\ UNCHANGED << preloaderVars, monitorVars, cacheVars >>
       ELSE ProviderError(r, "mask")

\* processVideoForContentFill resolves (ok) or rejects
SourceVideoProcessed(r, ok) ==
    /\ r \in DOMAIN fillRuns
    /\ IF ok
       THEN /\ Resume(r, "source", "provider",
                      AddJobLogs(fillJobs, fillRuns[r].job,
                                 << "Source video processed (trimmed + grey mask applied).",
                                    "Source video: ...", "Mask video: ...",
                                    "Submitting to fal.ai WAN-VACE 14B..." >>))
            /\ UNCHANGED << activeJobId, resultMedia, timelineResults,
                            cancelledJobs >>
            /\ UNCHANGED << preloaderVars, monitorVars, cacheVars >>
       ELSE ProviderError(r, "source")

\* the synchronous start of addResultToProject(result): it goes on to the
\* download when the result is completed, has a url and a project is active
MayAddResult(result, activeProject) ==
    /\ result.status = "completed"
    /\ result.resultUrl # Absent
    /\ activeProject

\* provider.processVideo resolves: the job is updated with the result, and
\* a completed result is handed to addResultToProject
ProviderResolved(r, result, activeProject) ==
    /\ r \in DOMAIN fillRuns
    /\ LET job     == fillRuns[r].job
           updated == UpdateJob(fillJobs, job,
                                [ status |-> result.status, progress |-> 100,
                                  resultUrl |-> result.resultUrl,
                                  error |-> result.error, completedAt |-> TRUE ])
       IN  IF result.status = "completed"
           THEN LET logged == AddJobLogs(updated, job,
                                 << "Content fill completed successfully!",
                                    "Auto-adding result to timeline..." >>)
                IN  IF MayAddResult(result, activeProject)
                    THEN Resume(r, "provider", "adding", logged)
                    ELSE Resume(r, "provider", "returned",
                                AddJobLog(logged, job,
                                   "Could not auto-add to timeline - check Media panel"))
           ELSE Resume(r, "provider", "returned",
                       AddJobLog(updated, job, "Processing failed: fal.ai error"))
    /\ UNCHANGED << activeJobId, resultMedia, timelineResults, cancelledJobs >>
    /\ UNCHANGED << preloaderVars, monitorVars, cacheVars >>

\* addResultToProject settles.  Its job is the provider's result, whose id is
\* no job of the store and whose trackId and elementId are empty: its own
\* logs reach no job.  The download may fail (downloaded FALSE), and the
\* new media item may be missing after the reload (found FALSE).
ResultAdded(r, downloaded, found) ==
    /\ r \in DOMAIN fillRuns
    /\ downloaded \/ ~found
    /\ resultMedia' = IF downloaded THEN resultMedia \cup {r} ELSE resultMedia
    /\ timelineResults' =
          IF found
          THEN timelineResults
               \cup { [ trackId |-> "", elementId |-> "", run |-> r,
                        job |-> fillRuns[r].job ] }
          ELSE timelineResults
    /\ Resume(r, "adding", "returned",
              AddJobLog(fillJobs, fillRuns[r].job,
                        IF found THEN "Result automatically added to timeline!"
                        ELSE "Could not auto-add to timeline - check Media panel"))
    /\ UNCHANGED << activeJobId, cancelledJobs >>
    /\ UNCHANGED << preloaderVars, monitorVars, cacheVars >>

\* cancelJob: a job that is processing is set to failed
CancelJob(jobId) ==
    /\ LET found == jobId \in DOMAIN fillJobs
       IN  IF found /\ fillJobs[jobId].status = "processing"
           THEN /\ fillJobs' = AddJobLog(UpdateJob(fillJobs, jobId,
                                                   [ status |-> "failed",
                                                     error |-> "Job cancelled by user" ]),
                                         jobId, "Job cancelled by user")
                /\ cancelledJobs' = cancelledJobs \cup {jobId}
           ELSE UNCHANGED << fillJobs, cancelledJobs >>
    /\ UNCHANGED << activeJobId, fillRuns, resultMedia, timelineResults >>
    /\ UNCHANGED << preloaderVars, monitorVars, cacheVars >>

FillNext ==
    \/ \E e \in FillElements \cup {NoElement}, apiKey \in BOOLEAN :
          ProcessContentFill(e, FillTrack, apiKey)
    \/ \E jobId \in 1..MaxFillCalls, apiKey \in BOOLEAN : RetryJob(jobId, apiKey)
    \/ \E jobId \in 1..MaxFillCalls : CancelJob(jobId)
    \/ \E r \in DOMAIN fillRuns, ok \in BOOLEAN : MaskGeneratorImported(r, ok)
    \/ \E r \in DOMAIN fillRuns, p \in ProgressReports : ProgressCallback(r, p)
    \/ \E r \in DOMAIN fillRuns, ok \in BOOLEAN : MaskVideoGenerated(r, ok)
    \/ \E r \in DOMAIN fillRuns, ok \in BOOLEAN : SourceVideoProcessed(r, ok)
    \/ \E r \in DOMAIN fillRuns, result \in ProviderResults, project \in BOOLEAN :
          ProviderResolved(r, result, project)
    \/ \E r \in DOMAIN fillRuns, downloaded, found \in BOOLEAN :
          ResultAdded(r, downloaded, found)

\* the content-fill service alone
ContentFillSpec == Init /\ [][FillNext]_vars

----------------------------------------------------------------------------
(* The claim about the content-fill service (ContentFillSpec) *)

\* C30, as claimed: once cancelJob has set a processing job to failed, no
\* later step of the run that is still going sets the job to completed or
\* processing again or adds its result to the timeline.  Refuted: the run
\* goes on and writes the provider's result over the cancelled job.
C30_CancelIsFinal ==
    \A jobId \in cancelledJobs :
        /\ fillJobs[jobId].status \notin { "completed", "processing" }
        /\ \A added \in timelineResults : added.job # jobId

====
